---- MODULE Spec2Model ----
(***************************************************************************)
(* Cache engine and crawl pipeline of Mind2Web-2: the URL identity         *)
(* functions (mind2web2/utils/url_tools.py), the on-disk store             *)
(* (mind2web2/utils/cache_filesys.py), the browser pool                    *)
(* (mind2web2/utils/page_info_retrieval.py), the crawl orchestrator        *)
(* (batch_answer_cache.py) and the review tool's delete                    *)
(* (cache_manager/models/cache_manager.py).                                *)
(*                                                                         *)
(* A URL string is a sequence of tokens.  A token [c, e, lc] stands for    *)
(* the text c percent-encoded e times: e = 0 is c itself, e = 1 is its     *)
(* escape "%XX", e = 2 is "%25XX" and so on; lc says that the hex digits   *)
(* of the escape were lower-cased by str.lower().  The reserved            *)
(* characters are one-character tokens; every other c is a run of          *)
(* unreserved characters that no function of the program splits.  Two      *)
(* token sequences are equal exactly when the strings are.                 *)
(***************************************************************************)
EXTENDS Integers, Sequences, FiniteSets, TLC

Tok(c) == [c |-> c, e |-> 0, lc |-> FALSE]

Esc(c, n) == [c |-> c, e |-> n, lc |-> FALSE]

\* The reserved characters of the alphabet.
Reserved == {":", "/", "?", "#", "&", "="}

\* Unreserved runs that consist of scheme characters (letters, digits, + - .)
\* and start with a letter: what urlsplit accepts before the first ':'.
SchemeRuns == {"http", "https", "HTTP", "www.", "a.com", "b.com", "chatgpt.com", "openai.com",
               "p", "P", "q", "x", "f", "A", "a"}

\* Unreserved runs of digits: scheme characters that cannot start a scheme.
DigitRuns == {"1", "2"}

\* Characters whose escape holds a hex letter (%2F %3F %3A %3D), so that
\* lower() changes the escape.
HexLetterEscapes == {"/", "?", ":", "="}

IsLit(t, ch) == t.c = ch /\ t.e = 0

HasLit(s, ch) == \E i \in 1..Len(s) : IsLit(s[i], ch)

\* Index of the first literal ch in s, 0 when there is none (str.find + 1).
FirstLit(s, ch) ==
  IF HasLit(s, ch) THEN CHOOSE i \in 1..Len(s) : IsLit(s[i], ch) /\ \A j \in 1..(i-1) : ~IsLit(s[j], ch)
  ELSE 0

Prefix(s, n) == SubSeq(s, 1, n)

Suffix(s, n) == SubSeq(s, n, Len(s))

\* s.startswith(p)
StartsWith(s, p) == Len(s) >= Len(p) /\ Prefix(s, Len(p)) = p

\* s.endswith(p)
EndsWith(s, p) == Len(s) >= Len(p) /\ SubSeq(s, Len(s) - Len(p) + 1, Len(s)) = p

Slash == <<Tok("/")>>

ColonSlashSlash == <<Tok(":"), Tok("/"), Tok("/")>>

HttpPrefix == <<Tok("http")>> \o ColonSlashSlash

HttpsPrefix == <<Tok("https")>> \o ColonSlashSlash

\* urllib.parse.unquote: one level of percent-decoding.
Unquote(s) ==
  [i \in 1..Len(s) |->
     IF s[i].e > 0
       THEN [c |-> s[i].c, e |-> s[i].e - 1, lc |-> s[i].lc /\ s[i].e > 1]
       ELSE s[i]]

\* urllib.parse.quote(s, safe): '%' is never safe, so an escape gains a level;
\* a reserved character outside safe is escaped; unreserved runs are kept.
Quote(s, safe) ==
  [i \in 1..Len(s) |->
     IF s[i].e > 0 THEN [s[i] EXCEPT !.e = @ + 1]
     ELSE IF s[i].c \in Reserved /\ s[i].c \notin safe THEN [s[i] EXCEPT !.e = 1]
     ELSE s[i]]

\* str.lower()
LowerRun(c) ==
  CASE c = "P" -> "p"
    [] c = "A" -> "a"
    [] c = "HTTP" -> "http"
    [] OTHER -> c

Lower(s) ==
  [i \in 1..Len(s) |->
     [c |-> IF s[i].e = 0 THEN LowerRun(s[i].c) ELSE s[i].c,
      e |-> s[i].e,
      lc |-> s[i].lc \/ (s[i].e > 0 /\ s[i].c \in HexLetterEscapes)]]

(***************************************************************************)
(* urllib.parse: urlsplit / urlunsplit / urldefrag / parse_qs / urlencode  *)
(***************************************************************************)

\* Length of the prefix of s that holds none of the literal characters in stop.
RECURSIVE SpanUntil(_, _)
SpanUntil(s, stop) ==
  IF s = <<>> \/ (Head(s).e = 0 /\ Head(s).c \in stop) THEN 0
  ELSE 1 + SpanUntil(Tail(s), stop)

\* urlsplit's scheme test: a ':' at position i > 0, the text before it made of
\* scheme characters and starting with a letter.
SchemeLen(s) ==
  LET i == FirstLit(s, ":")
  IN IF /\ i > 1
        /\ s[1].e = 0 /\ s[1].c \in SchemeRuns
        /\ \A j \in 1..(i-1) : s[j].e = 0 /\ s[j].c \in SchemeRuns \cup DigitRuns
     THEN i - 1 ELSE 0

\* urlparse(url): scheme (lower-cased), netloc, path, query, fragment.  The
\* alphabet has no ';', so params is always empty.  urlsplit cuts the string
\* in four steps; each step below hands the pieces it has cut to the next.
\* Last step: the query starts after the first '?' (position q, 0 for none).
SplitQuery(scheme, netloc, rest, frag, q) ==
  [scheme |-> scheme, netloc |-> netloc,
   path |-> IF q > 0 THEN Prefix(rest, q - 1) ELSE rest,
   query |-> IF q > 0 THEN Suffix(rest, q + 1) ELSE <<>>,
   fragment |-> frag]

\* The fragment starts after the first '#' (position h, 0 for none).
SplitFragment(scheme, netloc, rest, h) ==
  SplitQuery(scheme, netloc,
             IF h > 0 THEN Prefix(rest, h - 1) ELSE rest,
             IF h > 0 THEN Suffix(rest, h + 1) ELSE <<>>,
             FirstLit(IF h > 0 THEN Prefix(rest, h - 1) ELSE rest, "?"))

\* The netloc is the nl tokens after '//' up to the first of / ? #.
SplitNetloc(scheme, rest, nl) ==
  SplitFragment(scheme, Prefix(rest, nl), Suffix(rest, nl + 1), FirstLit(Suffix(rest, nl + 1), "#"))

\* The scheme is the n tokens before the first ':' (n = 0: no scheme).
SplitScheme(scheme, rest) ==
  IF StartsWith(rest, <<Tok("/"), Tok("/")>>)
    THEN SplitNetloc(scheme, Suffix(rest, 3), SpanUntil(Suffix(rest, 3), {"/", "?", "#"}))
    ELSE SplitNetloc(scheme, rest, 0)

UrlParseAt(s, n) ==
  IF n > 0 THEN SplitScheme(Lower(Prefix(s, n)), Suffix(s, n + 2)) ELSE SplitScheme(<<>>, s)

UrlParse(s) == UrlParseAt(s, SchemeLen(s))

\* urlunparse((scheme, netloc, path, '', query, fragment))
UrlUnparse(scheme, netloc, path, query, fragment) ==
  LET usesNetloc == scheme \in {<<Tok("http")>>, <<Tok("https")>>}
      u1 == IF netloc # <<>> \/ (scheme # <<>> /\ usesNetloc /\ ~StartsWith(path, <<Tok("/"), Tok("/")>>))
              THEN <<Tok("/"), Tok("/")>> \o netloc
                   \o (IF path # <<>> /\ ~IsLit(path[1], "/") THEN Slash ELSE <<>>) \o path
              ELSE path
      u2 == IF scheme # <<>> THEN scheme \o <<Tok(":")>> \o u1 ELSE u1
      u3 == IF query # <<>> THEN u2 \o <<Tok("?")>> \o query ELSE u2
  IN IF fragment # <<>> THEN u3 \o <<Tok("#")>> \o fragment ELSE u3

\* urlunparse of a parse result.
Unparse(p) == UrlUnparse(p.scheme, p.netloc, p.path, p.query, p.fragment)

\* urldefrag(url)[0]
UrlDefrag(s) ==
  IF HasLit(s, "#") THEN Unparse([UrlParse(s) EXCEPT !.fragment = <<>>]) ELSE s

\* qs.split('&')
RECURSIVE SplitAmp(_)
SplitAmp(s) ==
  LET i == FirstLit(s, "&")
  IN IF i = 0 THEN <<s>> ELSE <<Prefix(s, i - 1)>> \o SplitAmp(Suffix(s, i + 1))

\* parse_qsl(qs, keep_blank_values=True): the (name, value) pairs, decoded.
RECURSIVE PairsOf(_)
PairsOf(parts) ==
  IF parts = <<>> THEN <<>>
  ELSE LET nv == Head(parts)
           i  == FirstLit(nv, "=")
           name  == IF i = 0 THEN nv ELSE Prefix(nv, i - 1)
           value == IF i = 0 THEN <<>> ELSE Suffix(nv, i + 1)
       IN (IF nv = <<>> THEN <<>> ELSE << <<Unquote(name), Unquote(value)>> >>)
          \o PairsOf(Tail(parts))

ParseQsl(query) == PairsOf(SplitAmp(query))

\* name.startswith('utm_')
UtmRuns == {"utm_source", "utm_medium"}

IsUtmName(name) == name # <<>> /\ name[1].e = 0 /\ name[1].c \in UtmRuns

\* The pairs of a dict built by parse_qs and filtered: names in order of first
\* appearance, each with all its values (dict insertion order, doseq=True).
RECURSIVE GroupPairs(_, _)
GroupPairs(pairs, done) ==
  IF pairs = <<>> THEN <<>>
  ELSE LET name == Head(pairs)[1]
       IN IF name \in done THEN GroupPairs(Tail(pairs), done)
          ELSE SelectSeq(pairs, LAMBDA pr : pr[1] = name)
               \o GroupPairs(Tail(pairs), done \cup {name})

\* urlencode(pairs, doseq=True): quote_plus(name) '=' quote_plus(value) joined by '&'.
RECURSIVE UrlEncode(_)
UrlEncode(pairs) ==
  IF pairs = <<>> THEN <<>>
  ELSE Quote(Head(pairs)[1], {}) \o <<Tok("=")>> \o Quote(Head(pairs)[2], {})
       \o (IF Tail(pairs) = <<>> THEN <<>> ELSE <<Tok("&")>> \o UrlEncode(Tail(pairs)))

\* The query rebuilt without the utm_* parameters (url_tools.py 35-41, 77-81).
FilterUtmQuery(query) ==
  UrlEncode(GroupPairs(SelectSeq(ParseQsl(query), LAMBDA pr : ~IsUtmName(pr[1])), {}))


(***************************************************************************)
(* mind2web2/utils/url_tools.py and CacheFileSys._remove_frag_and_slash    *)
(***************************************************************************)

\* The URL with parse result p, rebuilt without its utm_* parameters; a URL
\* without a query is returned as it is (url_tools.py 31-49, 73-86).
WithoutUtm(url, p) ==
  IF p.query = <<>> THEN url ELSE Unparse([p EXCEPT !.query = FilterUtmQuery(p.query)])

\* remove_utm_parameters(url)
remove_utm_parameters(url) == WithoutUtm(url, UrlParse(url))

\* decoded.endswith('/') and len(decoded) > 1 and not decoded.endswith('://')
StripsSlash(s) == EndsWith(s, Slash) /\ s # Slash /\ ~EndsWith(s, ColonSlashSlash)

StripSlash(s) == IF StripsSlash(s) THEN Prefix(s, Len(s) - 1) ELSE s

\* CacheFileSys._remove_frag_and_slash(url)
remove_frag_and_slash(url) == StripSlash(Unquote(UrlDefrag(url)))

\* decoded.replace('://www.', '://'): every occurrence.
RECURSIVE DropWww(_)
DropWww(s) ==
  IF s = <<>> THEN <<>>
  ELSE IF StartsWith(s, ColonSlashSlash \o <<Tok("www.")>>)
    THEN ColonSlashSlash \o DropWww(Suffix(s, 5))
    ELSE <<Head(s)>> \o DropWww(Tail(s))

\* the leading 'http://' replaced by 'https://'
ToHttps(s) == IF StartsWith(s, HttpPrefix) THEN HttpsPrefix \o Suffix(s, 5) ELSE s

\* normalize_url_simple after the first steps gave decoded: the query is
\* filtered again, then scheme, www. and case are unified.
NormalizeDecoded(decoded) == Lower(DropWww(ToHttps(WithoutUtm(decoded, UrlParse(decoded)))))

\* normalize_url_simple(url)
normalize_url_simple(url) ==
  NormalizeDecoded(StripSlash(Unquote(UrlDefrag(remove_utm_parameters(url)))))


(***************************************************************************)
(* CacheFileSys._get_url_variants (cache_filesys.py 62-143)                *)
(***************************************************************************)

UtmChatgpt == <<Tok("?"), Tok("utm_source"), Tok("="), Tok("chatgpt.com")>>

UtmOpenai == <<Tok("?"), Tok("utm_source"), Tok("="), Tok("openai.com")>>

\* swap_scheme(u): the set is empty where the code returns None.
swap_scheme(u) ==
  IF StartsWith(u, HttpPrefix) THEN {HttpsPrefix \o Suffix(u, 5)}
  ELSE IF StartsWith(u, HttpsPrefix) THEN {HttpPrefix \o Suffix(u, 5)}
  ELSE {}

\* The safe sets of the seven quote calls, restricted to the alphabet
\* (quote_plus differs from quote only for ' ', which the alphabet lacks).
SafeDefault == {"/"}

SafeBasic == {":", "/", "?", "#"}

SafeCommon == {":", "/", "?", "#", "&", "="}

SafeBrackets == SafeCommon

SafeRfc == SafeCommon

SafeMinimal == {":", "/"}

SafePlus == SafeCommon

\* base_urls before the scheme swaps (lines 74-96).
BaseUrlsOf(url, url_no_frag) ==
  {url, url_no_frag, remove_utm_parameters(url), remove_utm_parameters(url_no_frag),
   url \o UtmChatgpt, url_no_frag \o UtmChatgpt,
   url \o UtmOpenai, url_no_frag \o UtmOpenai}
  \cup (IF ~EndsWith(url, Slash) THEN {url \o Slash \o UtmChatgpt, url \o Slash \o UtmOpenai} ELSE {})
  \cup (IF ~EndsWith(url_no_frag, Slash)
          THEN {url_no_frag \o Slash \o UtmChatgpt, url_no_frag \o Slash \o UtmOpenai} ELSE {})
  \cup (IF StartsWith(url, HttpPrefix \o <<Tok("www.")>>) THEN {HttpPrefix \o Suffix(url, 6)}
        ELSE IF StartsWith(url, HttpsPrefix \o <<Tok("www.")>>) THEN {HttpsPrefix \o Suffix(url, 6)}
        ELSE {})

BaseUrls0(url) == BaseUrlsOf(url, UrlDefrag(url))

\* base_urls with the swapped schemes added (lines 98-101).
WithSwaps(base) == base \cup UNION {swap_scheme(u) : u \in base}

BaseUrls(url) == WithSwaps(BaseUrls0(url))

\* encoding_variants of one base URL (lines 106-119).
EncodingVariants(b) ==
  {b, Quote(b, SafeDefault), Quote(b, SafeBasic), Quote(b, SafeCommon), Quote(b, SafeBrackets),
   Quote(b, SafeRfc), Quote(b, SafeMinimal), Quote(b, SafePlus), Unquote(b)}

\* A variant and its form with the trailing slash toggled (lines 121-126).
SlashForms(v) ==
  {v} \cup (IF StripsSlash(v) THEN {Prefix(v, Len(v) - 1)}
            ELSE IF ~EndsWith(v, Slash) THEN {v \o Slash} ELSE {})

\* _get_url_variants(url), as the set of its members: the list is built by
\* iterating over a Python set, so its order is not fixed by the code.
get_url_variants(url) ==
  UNION {SlashForms(v) : v \in UNION {EncodingVariants(b) : b \in BaseUrls(url)}}

(***************************************************************************)
(* CacheFileSys (cache_filesys.py): the index, the payload files and the   *)
(* operations on them, as functions of the values they read.               *)
(*   index   a sequence of [url, kind]: a dict in insertion order          *)
(*   files   a function from <<hash key, extension>> to the file's content *)
(*   ixfile  index.json: [st |-> "absent"], [st |-> "ok", data |-> index], *)
(*           or [st |-> m] for a file the program did not write: m is      *)
(*           "unreadable" (open fails), "not_json", "not_utf8" (the bytes  *)
(*           are no UTF-8 text) or "not_mapping" (JSON that is no object)  *)
(***************************************************************************)

NoneVal == "None"

\* _get_url_hash(url): md5 is taken as injective, so the digest of the
\* normalized URL is represented by the normalized URL itself.
get_url_hash(url) == remove_frag_and_slash(url)

IndexKeys(index) == {index[i].url : i \in 1..Len(index)}

IndexKind(index, key) == index[CHOOSE i \in 1..Len(index) : index[i].url = key].kind

\* self.urls[key] = kind
IndexPut(index, key, kind) ==
  IF key \in IndexKeys(index)
    THEN [i \in 1..Len(index) |-> IF index[i].url = key THEN [url |-> key, kind |-> kind] ELSE index[i]]
    ELSE Append(index, [url |-> key, kind |-> kind])

\* del self.urls[key]
IndexDel(index, key) == SelectSeq(index, LAMBDA en : en.url # key)

FileExists(files, h, ext) == <<h, ext>> \in DOMAIN files

\* open(path, 'w').write(data)
WriteFile(files, h, ext, data) ==
  [n \in DOMAIN files \cup {<<h, ext>>} |-> IF n = <<h, ext>> THEN data ELSE files[n]]

\* os.remove(path) if os.path.exists(path)
RemoveFile(files, h, ext) == [n \in DOMAIN files \ {<<h, ext>>} |-> files[n]]

\* The files_exist test of _load_index for an entry with hash key h (lines
\* 160-171): only the kinds web and pdf are checked.
FilesExistAt(files, h, kind) ==
  CASE kind = "web" -> FileExists(files, h, "txt") /\ FileExists(files, h, "jpg")
    [] kind = "pdf" -> FileExists(files, h, "pdf")
    [] OTHER -> TRUE

FilesExist(files, url, kind) == FilesExistAt(files, get_url_hash(url), kind)

\* _load_index: the entries of index.json whose files exist, in file order.
load_index(ixfile, files) ==
  IF ixfile.st = "ok"
    THEN SelectSeq(ixfile.data, LAMBDA en : FilesExist(files, en.url, en.kind))
    ELSE <<>>

\* The states of an index.json that is no URL-to-kind mapping.
Malformed == {"unreadable", "not_json", "not_utf8", "not_mapping"}

\* _load_index raises: only IOError and json.JSONDecodeError are caught
\* (lines 148-153).  Text that is not UTF-8 raises UnicodeDecodeError inside
\* json.load, and a JSON value that is no object has no items() (line 159).
load_raises(ixfile) == ixfile.st \in {"not_utf8", "not_mapping"}

\* The stored URL at the least of the positions hits, none for no position.
FirstHit(index, hits) ==
  IF hits = {} THEN {} ELSE {index[CHOOSE i \in hits : \A j \in hits : i <= j].url}

\* The first stored URL whose normalized form equals norm, the normalized
\* form of the request (lines 192-198); the set is empty when there is none.
ReverseSearch(index, norm) ==
  FirstHit(index, {i \in 1..Len(index) : normalize_url_simple(index[i].url) = norm})

\* The four stages of _find_url, norm being normalize_url_simple(url).
FindUrlAt(index, url, norm) ==
  IF url \in IndexKeys(index) THEN {url}
  ELSE IF norm \in IndexKeys(index) THEN {norm}
  ELSE IF \E i \in 1..Len(index) : normalize_url_simple(index[i].url) = norm
    THEN ReverseSearch(index, norm)
  ELSE get_url_variants(url) \cap IndexKeys(index)

\* _find_url(url): the set of keys the call can return, empty for None.  The
\* first three stages give one key; the variant list is built from a Python
\* set, so with several stored variants the call returns any one of them.
find_url(index, url) == FindUrlAt(index, url, normalize_url_simple(url))

\* The kinds stored for the keys found; {NoneVal} when nothing was found.
KindsOf(index, found) ==
  IF found = {} THEN {NoneVal} ELSE {IndexKind(index, k) : k \in found}

\* has(url): the kinds the call can return; {NoneVal} when nothing resolves.
has(index, url) == KindsOf(index, find_url(index, url))

\* A test that looks the URL up by its exact string only.
Cached_ExactKey(index, url) == url \in IndexKeys(index)

\* `if cache.has(url)`: some return value of has is a kind.
Cached(index, url) == find_url(index, url) # {}

\* _convert_image_to_jpg: a decodable image is re-encoded as JPEG; anything
\* else is written as the decoded bytes (the except branch).
convert_image_to_jpg(shot) ==
  IF shot \in {"png1", "png2", "BLANK_IMG_B64"} THEN <<"jpeg", shot>> ELSE <<"raw", shot>>

\* A get_web that reads the files of the resolved key whatever its kind.
get_web_files_AnyKind(index, files, k, h) ==
  IF ~FileExists(files, h, "txt") \/ ~FileExists(files, h, "jpg")
    THEN [res |-> "FileNotFoundError"]
  ELSE [res |-> "ok", text |-> files[<<h, "txt">>], shot |-> files[<<h, "jpg">>]]

\* get_web for the resolved key k, whose hash key is h (lines 276-295).
get_web_files(index, files, k, h) ==
  IF IndexKind(index, k) # "web" THEN [res |-> "KeyError"]
  ELSE IF ~FileExists(files, h, "txt") \/ ~FileExists(files, h, "jpg")
    THEN [res |-> "FileNotFoundError"]
  ELSE [res |-> "ok", text |-> files[<<h, "txt">>], shot |-> files[<<h, "jpg">>]]

get_web_at(index, files, k) == get_web_files(index, files, k, get_url_hash(k))

\* get_pdf for the resolved key k, whose hash key is h (lines 299-308).
get_pdf_files(index, files, k, h) ==
  IF IndexKind(index, k) # "pdf" THEN [res |-> "KeyError"]
  ELSE IF ~FileExists(files, h, "pdf") THEN [res |-> "FileNotFoundError"]
  ELSE [res |-> "ok", bytes |-> files[<<h, "pdf">>]]

get_pdf_at(index, files, k) == get_pdf_files(index, files, k, get_url_hash(k))

\* The outcomes of get_web when _find_url can return the keys found.
get_web_of(index, files, found) ==
  IF found = {} THEN {[res |-> "KeyError"]} ELSE {get_web_at(index, files, k) : k \in found}

\* get_web(url): every outcome the call can have.
get_web(index, files, url) == get_web_of(index, files, find_url(index, url))

\* The outcomes of get_pdf when _find_url can return the keys found.
get_pdf_of(index, files, found) ==
  IF found = {} THEN {[res |-> "KeyError"]} ELSE {get_pdf_at(index, files, k) : k \in found}

\* get_pdf(url): every outcome the call can have.
get_pdf(index, files, url) == get_pdf_of(index, files, find_url(index, url))

\* The two files of put_web under the hash key h.
put_web_at(files, h, text, shot) ==
  WriteFile(WriteFile(files, h, "txt", <<"text", text>>), h, "jpg", convert_image_to_jpg(shot))

\* put_web(url, text, screenshot): the files it writes.
put_web_files(files, url, text, shot) == put_web_at(files, get_url_hash(url), text, shot)

put_web_index(index, url) == IndexPut(index, remove_frag_and_slash(url), "web")

\* put_pdf(url, pdf_bytes)
put_pdf_files(files, url, bytes) == WriteFile(files, get_url_hash(url), "pdf", <<"bytes", bytes>>)

put_pdf_index(index, url) == IndexPut(index, remove_frag_and_slash(url), "pdf")

\* save(): json.dump(self.urls) into index.json
save(index) == [st |-> "ok", data |-> index]

(***************************************************************************)
(* State                                                                   *)
(***************************************************************************)
VARIABLES
  urls,        \* CacheFileSys.urls of the live store instance
  files,       \* the payload files of the task directory
  indexFile,   \* index.json of the task directory
  putPc,       \* position inside a put_* call of the live instance
  putArg,      \* the arguments of that call
  nOps,        \* store operations started so far
  last,        \* the last store operation and what it was applied to
  run,         \* process_cache: its arguments and how far it has come
  task,        \* the per-URL tasks of the run: crawl_one_page_safe(u)
  pool,        \* the BatchBrowserManager of the run
  hist,        \* what the tasks of the run have done so far
  env          \* the failures and timeouts the environment may still produce

storeVars == <<urls, files, indexFile>>

putVars == <<putPc, putArg, nOps, last>>

runVars == <<run, task, pool, hist, env>>

vars == <<urls, files, indexFile, putPc, putArg, nOps, last, run, task, pool, hist, env>>

(***************************************************************************)
(* The values of run, task, pool and hist                                  *)
(*   run    phase     where process_cache is: "idle" before the call,      *)
(*                    "enter_pw", "enter_launch" inside __aenter__,        *)
(*                    "crawl" while the tasks run, "exit_close", "exit_pw" *)
(*                    inside __aexit__, "ended" after the call returned,   *)
(*                    "raised" after it raised                             *)
(*          list      all_unique_urls                                      *)
(*          no        the number of the call                               *)
(*   task   pc        the await the task is suspended at                   *)
(*          mode      what follows the finally block of capture_page       *)
(*          attempt   the loop variable of capture_page                    *)
(*          timer     the timeout of asyncio.wait_for                      *)
(*          handle    capture_page's local variable browser                *)
(*          ctx       capture_page's local variable context is set         *)
(*          res       the pair capture_page returns                        *)
(*          term      how the task ended                                   *)
(*   pool   browser   self.browser: a browser number, 0 for None           *)
(*          playwright self.playwright is set                              *)
(*          open      the numbers of the browser processes that are open   *)
(*          gen       browsers launched so far                             *)
(*          lock      the task holding _browser_lock, 0 for none           *)
(*   hist   captures  per task, the calls of capture_page                  *)
(*          fetches   per task, the document fetches                       *)
(*          webs      per task, the calls of put_web                       *)
(*          pdfs      per task, the calls of put_pdf                       *)
(*          raised    the tasks whose capture_page call raised             *)
(*          known     the tasks whose URL has() reported a kind for when   *)
(*                    the run constructed its store                        *)
(*   env    faults    operations that may still fail                       *)
(*          timeouts  tasks that may still run into the overall timeout    *)
(***************************************************************************)
NoRun == [phase |-> "idle", list |-> <<>>, no |-> 0]

NoPool == [browser |-> 0, playwright |-> FALSE, open |-> {}, gen |-> 0, lock |-> 0]

NoEnv == [faults |-> 0, timeouts |-> 0]

NoHist == [captures |-> <<>>, fetches |-> <<>>, webs |-> <<>>, pdfs |-> <<>>, raised |-> {}, known |-> {}]

NewTask == [pc |-> "new", mode |-> "", attempt |-> 0, timer |-> "off", handle |-> 0,
            ctx |-> FALSE, res |-> "", term |-> ""]

(***************************************************************************)
(* Inputs of the store specification                                       *)
(***************************************************************************)
MaxOps == 4

UrlAP == HttpsPrefix \o <<Tok("a.com"), Tok("/"), Tok("p")>>

UrlAPHttpSlash == HttpPrefix \o <<Tok("a.com"), Tok("/"), Tok("p"), Tok("/")>>

UrlAPSlashSlash == HttpsPrefix \o <<Tok("a.com"), Tok("/"), Tok("p"), Tok("/"), Tok("/")>>

UrlBQ == HttpsPrefix \o <<Tok("b.com"), Tok("/"), Tok("q")>>

StoreUrls == {UrlAP, UrlAPHttpSlash, UrlAPSlashSlash, UrlBQ}

Texts == {"text1"}

Shots == {"png1"}

PdfBytes == {"pdf1"}

NoArg == [url |-> <<>>, text |-> "", shot |-> ""]

(***************************************************************************)
(* The store used directly: put_web and put_pdf step by step, save,        *)
(* CacheManager.delete_url, and the construction of a new instance on the  *)
(* directory (after the process was killed, or by another tool).           *)
(***************************************************************************)
StoreInit ==
  /\ urls = <<>>
  /\ files = <<>>
  /\ indexFile = [st |-> "absent"]
  /\ putPc = "idle"
  /\ putArg = NoArg
  /\ nOps = 0
  /\ last = [op |-> "init", url |-> <<>>, at |-> "idle"]
  /\ run = NoRun
  /\ task = <<>>
  /\ pool = NoPool
  /\ hist = NoHist
  /\ env = NoEnv

\* A put_web that sets the index entry before it writes the files.
PutWebText_IndexFirst(u, text, shot) ==
  /\ putPc = "idle" /\ nOps < MaxOps
  /\ urls' = put_web_index(urls, u)
  /\ files' = WriteFile(files, get_url_hash(u), "txt", <<"text", text>>)
  /\ putPc' = "web_jpg"
  /\ putArg' = [url |-> u, text |-> text, shot |-> shot]
  /\ nOps' = nOps + 1
  /\ last' = [op |-> "put_web", url |-> u, at |-> "idle"]
  /\ UNCHANGED indexFile
  /\ UNCHANGED runVars

\* put_web, lines 246-251: the text file is written.
PutWebText(u, text, shot) ==
  /\ putPc = "idle" /\ nOps < MaxOps
  /\ files' = WriteFile(files, get_url_hash(u), "txt", <<"text", text>>)
  /\ putPc' = "web_jpg"
  /\ putArg' = [url |-> u, text |-> text, shot |-> shot]
  /\ nOps' = nOps + 1
  /\ last' = [op |-> "put_web", url |-> u, at |-> "idle"]
  /\ UNCHANGED <<urls, indexFile>>
  /\ UNCHANGED runVars

\* put_web, lines 254-257: the screenshot file is written.
PutWebShot ==
  /\ putPc = "web_jpg"
  /\ files' = WriteFile(files, get_url_hash(putArg.url), "jpg", convert_image_to_jpg(putArg.shot))
  /\ putPc' = "web_idx"
  /\ UNCHANGED <<urls, indexFile, putArg, nOps, last>>
  /\ UNCHANGED runVars

\* A put_web that writes index.json when it sets the index entry.
PutWebIndex_Saves ==
  /\ putPc = "web_idx"
  /\ urls' = put_web_index(urls, putArg.url)
  /\ indexFile' = save(urls')
  /\ putPc' = "idle"
  /\ putArg' = NoArg
  /\ UNCHANGED <<files, nOps, last>>
  /\ UNCHANGED runVars

\* put_web, line 260: the index entry is set.
PutWebIndex ==
  /\ putPc = "web_idx"
  /\ urls' = put_web_index(urls, putArg.url)
  /\ putPc' = "idle"
  /\ putArg' = NoArg
  /\ UNCHANGED <<files, indexFile, nOps, last>>
  /\ UNCHANGED runVars

\* put_pdf, lines 264-269: the pdf file is written.
PutPdfFile(u, bytes) ==
  /\ putPc = "idle" /\ nOps < MaxOps
  /\ files' = put_pdf_files(files, u, bytes)
  /\ putPc' = "pdf_idx"
  /\ putArg' = [url |-> u, text |-> "", shot |-> bytes]
  /\ nOps' = nOps + 1
  /\ last' = [op |-> "put_pdf", url |-> u, at |-> "idle"]
  /\ UNCHANGED <<urls, indexFile>>
  /\ UNCHANGED runVars

\* put_pdf, line 272: the index entry is set.
PutPdfIndex ==
  /\ putPc = "pdf_idx"
  /\ urls' = put_pdf_index(urls, putArg.url)
  /\ putPc' = "idle"
  /\ putArg' = NoArg
  /\ UNCHANGED <<files, indexFile, nOps, last>>
  /\ UNCHANGED runVars

\* cache.save()
Save ==
  /\ putPc = "idle" /\ nOps < MaxOps
  /\ indexFile' = save(urls)
  /\ nOps' = nOps + 1
  /\ last' = [op |-> "save", url |-> <<>>, at |-> "idle"]
  /\ UNCHANGED <<urls, files, putPc, putArg>>
  /\ UNCHANGED runVars

\* The files delete_url removes (lines 281-297): those of the kind has(url)
\* reports, under the hash key h of the requested URL.
delete_files_at(fs, h, kind) ==
  CASE kind = "web" -> RemoveFile(RemoveFile(fs, h, "txt"), h, "jpg")
    [] kind = "pdf" -> RemoveFile(fs, h, "pdf")
    [] OTHER -> fs

delete_url_files(fs, url, kind) == delete_files_at(fs, get_url_hash(url), kind)

\* The index after delete_url (lines 300-302).
delete_url_index(index, stored) == IF stored \in IndexKeys(index) THEN IndexDel(index, stored) ELSE index

\* CacheManager.delete_url(task_id, url) on the task's store.  found says
\* whether _find_url(url) returned a key, stored is that key.  cache.save()
\* is part of the call.
DeleteUrlAt(u, found, stored) ==
  /\ putPc = "idle" /\ nOps < MaxOps
  /\ files' = delete_url_files(files, u, IF found THEN IndexKind(urls, stored) ELSE NoneVal)
  /\ urls' = (IF found THEN delete_url_index(urls, stored) ELSE urls)
  /\ indexFile' = save(urls')
  /\ nOps' = nOps + 1
  /\ last' = [op |-> "delete_url", url |-> u, at |-> "idle"]
  /\ UNCHANGED <<putPc, putArg>>
  /\ UNCHANGED runVars

DeleteUrl(u) ==
  \/ find_url(urls, u) = {} /\ DeleteUrlAt(u, FALSE, <<>>)
  \/ \E stored \in find_url(urls, u) : DeleteUrlAt(u, TRUE, stored)

\* A call of get_web or get_pdf ends with the outcome r: the content is
\* returned or the exception is raised.  last.at holds the outcome.
GetEnds(op, u, r) ==
  /\ putPc = "idle" /\ nOps < MaxOps
  /\ nOps' = nOps + 1
  /\ last' = [op |-> op, url |-> u, at |-> r.res]
  /\ UNCHANGED <<urls, files, indexFile, putPc, putArg>>
  /\ UNCHANGED runVars

\* cache.get_web(u)
GetWeb(u) == \E r \in get_web(urls, files, u) : GetEnds("get_web", u, r)

\* cache.get_pdf(u)
GetPdf(u) == \E r \in get_pdf(urls, files, u) : GetEnds("get_pdf", u, r)

\* index.json is replaced from outside the program (edited by hand, cut
\* short, written by another tool) by a file that is no URL-to-kind mapping.
Damage(m) ==
  /\ putPc = "idle" /\ nOps < MaxOps
  /\ indexFile' = [st |-> m]
  /\ nOps' = nOps + 1
  /\ last' = [op |-> "damage", url |-> <<>>, at |-> "idle"]
  /\ UNCHANGED <<urls, files, putPc, putArg>>
  /\ UNCHANGED runVars

\* CacheFileSys(task_dir) on the same directory: the live instance is gone
\* (the process was killed at this point, or ended) and a new one loads
\* index.json and sweeps it.  When _load_index raises, so does the
\* constructor, and there is no instance.
Construct ==
  /\ nOps < MaxOps
  /\ urls' = load_index(indexFile, files)
  /\ putPc' = "idle"
  /\ putArg' = NoArg
  /\ nOps' = nOps + 1
  /\ last' = [op |-> IF load_raises(indexFile) THEN "construct_raised" ELSE "construct",
              url |-> putArg.url, at |-> putPc]
  /\ UNCHANGED <<files, indexFile>>
  /\ UNCHANGED runVars

StoreNext ==
  \/ \E u \in StoreUrls, text \in Texts, shot \in Shots : PutWebText(u, text, shot)
  \/ PutWebShot
  \/ PutWebIndex
  \/ \E u \in StoreUrls, bytes \in PdfBytes : PutPdfFile(u, bytes)
  \/ PutPdfIndex
  \/ Save
  \/ \E u \in StoreUrls : DeleteUrl(u)
  \/ \E m \in Malformed : Damage(m)
  \/ \E u \in StoreUrls : GetWeb(u)
  \/ \E u \in StoreUrls : GetPdf(u)
  \/ Construct

StoreSpec == StoreInit /\ [][StoreNext]_vars

(***************************************************************************)
(* BatchBrowserManager.capture_page and crawl_one_page: the code a task    *)
(* runs between two awaits, as a function of the task's record tk and the  *)
(* pool pl.  The result holds the task's record at its next await, the     *)
(* pool, and the event ev the piece of code produced: "capture" a call of  *)
(* capture_page, "fetch" a document fetch, "web" a put_web, "pdf" a        *)
(* put_pdf, "raise" an exception leaving capture_page, "none" otherwise.   *)
(***************************************************************************)
MaxConcurrentPages == 2

MaxRetries == 2

MaxFaults == 2

MaxRuns == 2

MaxTimeouts == 1

BLANK_IMG_B64 == "BLANK_IMG_B64"

ERROR_TEXT == "ERROR_TEXT"

\* The awaits inside `async with self._page_semaphore`.
InsidePcs == {"lazy_lock", "lazy_pw", "lazy_launch", "new_context", "page", "close",
              "restart_lock", "restart_close", "restart_pwstop", "restart_pw", "restart_launch"}

\* The awaits a task holds _browser_lock at.
LockedPcs == {"lazy_pw", "lazy_launch", "restart_close", "restart_pwstop", "restart_pw", "restart_launch"}

R(tk, pl, ev) == [tk |-> tk, pool |-> pl, ev |-> ev]

\* The task has ended: crawl_one_page_safe returned.
Done(tk, term) ==
  [tk EXCEPT !.pc = "done", !.term = term, !.mode = "", !.ctx = FALSE, !.attempt = 0, !.handle = 0,
             !.timer = IF @ = "armed" THEN "off" ELSE @]

\* crawl_one_page after capture_page returned (lines 218-222): both strings
\* of the pair must be non-empty for put_web.
ReturnToCaller(tk, pl) ==
  IF tk.res \in {"page", "sentinel"} THEN R(Done(tk, "cached"), pl, "web")
  ELSE R(Done(tk, "empty"), pl, "none")

\* A capture_page that returns the sentinel pair whenever an attempt has
\* failed before, also when the last attempt succeeded.
AfterFinally_SentinelAfterRetry(tk, pl) ==
  CASE tk.mode = "retry" ->
         R([tk EXCEPT !.pc = "new_context", !.attempt = @ + 1, !.mode = "", !.ctx = FALSE], pl, "none")
    [] tk.mode = "sentinel" -> ReturnToCaller([tk EXCEPT !.res = "sentinel"], pl)
    [] tk.mode = "return" ->
         ReturnToCaller([tk EXCEPT !.res = IF tk.attempt > 0 THEN "sentinel" ELSE @], pl)
    [] tk.mode = "raise" -> R(Done(tk, "failed"), pl, "raise")
    [] tk.mode = "cancel" -> R(Done(tk, "abandoned"), pl, "none")

\* capture_page after the finally block of an attempt: the next attempt, the
\* pending return, the exception on its way out, or the cancellation.
AfterFinally(tk, pl) ==
  CASE tk.mode = "retry" ->
         R([tk EXCEPT !.pc = "new_context", !.attempt = @ + 1, !.mode = "", !.ctx = FALSE], pl, "none")
    [] tk.mode = "sentinel" -> ReturnToCaller([tk EXCEPT !.res = "sentinel"], pl)
    [] tk.mode = "return" -> ReturnToCaller(tk, pl)
    [] tk.mode = "raise" -> R(Done(tk, "failed"), pl, "raise")
    [] tk.mode = "cancel" -> R(Done(tk, "abandoned"), pl, "none")

\* A finally block that does not close the context.
Finally_NoClose(tk, pl) == AfterFinally(tk, pl)

\* The finally block (lines 371-379): context.close() is awaited when a
\* context was created.
Finally(tk, pl) ==
  IF tk.ctx THEN R([tk EXCEPT !.pc = "close"], pl, "none") ELSE AfterFinally(tk, pl)

\* An except block that gives up at the first failed attempt.
AfterHandler_SentinelAtOnce(tk, pl) == Finally([tk EXCEPT !.mode = "sentinel"], pl)

\* The end of the except block (lines 367-369).
AfterHandler(tk, pl) ==
  Finally([tk EXCEPT !.mode = IF tk.attempt = MaxRetries - 1 THEN "sentinel" ELSE "retry"], pl)

\* A crash handler that restarts whatever browser the pool has, without
\* comparing it with the browser the call was using.
UnderLock_NoCompare(t, tk, pl) ==
  IF pl.browser # 0
    THEN R([tk EXCEPT !.pc = "restart_close"], [pl EXCEPT !.lock = t], "none")
    ELSE AfterHandler(tk, pl)

\* Lines 362-365 with _browser_lock acquired by task t: the restart begins
\* with stop(), whose first await is browser.close().
UnderLock(t, tk, pl) ==
  IF pl.browser = tk.handle
    THEN R([tk EXCEPT !.pc = "restart_close"], [pl EXCEPT !.lock = t], "none")
    ELSE AfterHandler(tk, pl)

\* The except block (lines 353-365) for an exception of the given kind:
\* "closed" is one whose message matches the crash test, "error" any other.
OnException(t, tk, pl, kind) ==
  IF kind = "closed"
    THEN IF pl.lock = 0 THEN UnderLock(t, tk, pl)
         ELSE R([tk EXCEPT !.pc = "restart_lock"], pl, "none")
    ELSE AfterHandler(tk, pl)

\* A _restart_browser whose exception leaves the except block with
\* _browser_lock still held.
RestartFailed_KeepsLock(tk, pl) == Finally([tk EXCEPT !.mode = "raise"], pl)

\* An exception inside _restart_browser leaves the except block: the lock is
\* released and the finally block runs with the exception pending.
RestartFailed(tk, pl) == Finally([tk EXCEPT !.mode = "raise"], [pl EXCEPT !.lock = 0])

\* CancelledError raised at an await inside the try block.
Cancelled(tk, pl) == Finally([tk EXCEPT !.mode = "cancel"], pl)

\* Lines 227-234 with the semaphore acquired by task t.
Inside(t, tk, pl) ==
  IF pl.browser = 0
    THEN IF pl.lock = 0 THEN R([tk EXCEPT !.pc = "lazy_pw"], [pl EXCEPT !.lock = t], "none")
         ELSE R([tk EXCEPT !.pc = "lazy_lock"], pl, "none")
    ELSE R([tk EXCEPT !.pc = "new_context", !.handle = pl.browser, !.attempt = 0], pl, "none")

\* A semaphore that never makes a caller wait.
SemaphoreFree_Unbounded(held) == held >= 0

\* _page_semaphore can be acquired when held tasks are inside.
SemaphoreFree(held) == held < MaxConcurrentPages

\* crawl_one_page calls capture_page (line 218), held tasks being inside.
EnterCapture(t, tk, pl, held) ==
  IF SemaphoreFree(held) THEN [Inside(t, tk, pl) EXCEPT !.ev = "capture"]
  ELSE R([tk EXCEPT !.pc = "sem"], pl, "capture")

(***************************************************************************)
(* The steps of a task: one action for each await, taken when the awaited  *)
(* operation completes, with the outcomes the environment can produce.     *)
(***************************************************************************)
Tasks == 1..Len(run.list)

\* The tasks inside `async with self._page_semaphore`.
SemHeld == Cardinality({t \in Tasks : task[t].pc \in InsidePcs})

\* url = remove_utm_parameters(url) (line 200)
TaskUrl(t) == remove_utm_parameters(run.list[t])

\* The pair handed to put_web: the captured page or the sentinel pair.
PutText(res) == IF res = "sentinel" THEN ERROR_TEXT ELSE "text1"

PutShot(res) == IF res = "sentinel" THEN BLANK_IMG_B64 ELSE "png1"

\* The environment spends what a step has cost it: "fault" for a failed
\* operation, "timeout" for an expired timer.
Spend(cost) ==
  CASE cost = "fault" -> [env EXCEPT !.faults = @ - 1]
    [] cost = "timeout" -> [env EXCEPT !.timeouts = @ - 1]
    [] OTHER -> env

\* The step of task t with result r takes effect; put_web and put_pdf run
\* inside the step, they have no await.
CommitAt(t, r, cost) ==
  /\ env' = Spend(cost)
  /\ task' = [task EXCEPT ![t] = r.tk]
  /\ pool' = r.pool
  /\ hist' = CASE r.ev = "capture" -> [hist EXCEPT !.captures[t] = @ + 1]
               [] r.ev = "fetch" -> [hist EXCEPT !.fetches[t] = @ + 1]
               [] r.ev = "web" -> [hist EXCEPT !.webs[t] = @ + 1]
               [] r.ev = "pdf" -> [hist EXCEPT !.pdfs[t] = @ + 1]
               [] r.ev = "raise" -> [hist EXCEPT !.raised = @ \cup {t}]
               [] OTHER -> hist
  /\ files' = CASE r.ev = "web" -> put_web_files(files, TaskUrl(t), PutText(r.tk.res), PutShot(r.tk.res))
                [] r.ev = "pdf" -> put_pdf_files(files, TaskUrl(t), "pdf1")
                [] OTHER -> files
  /\ urls' = CASE r.ev = "web" -> put_web_index(urls, TaskUrl(t))
               [] r.ev = "pdf" -> put_pdf_index(urls, TaskUrl(t))
               [] OTHER -> urls
  /\ UNCHANGED <<indexFile, putVars, run>>

Commit(t, r) == CommitAt(t, r, "none")

Failed(t, r) == env.faults > 0 /\ CommitAt(t, r, "fault")

\* The URLs is_pdf answers True for.
Documents == {UrlBQ}

\* await is_pdf(url) returns (line 203).
IsPdfDone(t) ==
  /\ run.phase = "crawl" /\ task[t].pc = "is_pdf"
  /\ IF TaskUrl(t) \in Documents THEN Commit(t, R([task[t] EXCEPT !.pc = "fetch"], pool, "fetch"))
     ELSE Commit(t, EnterCapture(t, task[t], pool, SemHeld))

\* A document branch that stores the fetched bytes and goes on to the page
\* capture all the same.
FetchDone_CaptureAfterPdf(t, outcome) ==
  /\ run.phase = "crawl" /\ task[t].pc = "fetch"
  /\ CASE outcome = "bytes" ->
            Commit(t, [EnterCapture(t, [task[t] EXCEPT !.res = "pdf"], pool, SemHeld) EXCEPT !.ev = "pdf"])
       [] outcome = "none" -> Commit(t, EnterCapture(t, task[t], pool, SemHeld))
       [] outcome = "raise" -> Failed(t, EnterCapture(t, task[t], pool, SemHeld))

\* The sleep and _fetch_pdf_bytes return (lines 206-212): the bytes, None,
\* or an exception, which the inner except logs.
FetchDone(t, outcome) ==
  /\ run.phase = "crawl" /\ task[t].pc = "fetch"
  /\ CASE outcome = "bytes" -> Commit(t, R(Done([task[t] EXCEPT !.res = "pdf"], "cached"), pool, "pdf"))
       [] outcome = "none" -> Commit(t, EnterCapture(t, task[t], pool, SemHeld))
       [] outcome = "raise" -> Failed(t, EnterCapture(t, task[t], pool, SemHeld))

\* A task waiting for the semaphore gets it (line 225).
SemAcquire(t) ==
  /\ run.phase = "crawl" /\ task[t].pc = "sem"
  /\ SemaphoreFree(SemHeld)
  /\ Commit(t, Inside(t, task[t], pool))

\* A task waiting for _browser_lock gets it: before the lazy start (lines
\* 228-230, with the second test of self.browser) or in the except block.
LockAcquire(t) ==
  /\ run.phase = "crawl" /\ pool.lock = 0
  /\ \/ /\ task[t].pc = "lazy_lock"
        /\ Commit(t, Inside(t, task[t], pool))
     \/ /\ task[t].pc = "restart_lock"
        /\ Commit(t, UnderLock(t, task[t], pool))

\* start(): async_playwright().start() returns or raises (line 175).  In
\* the lazy start the exception leaves capture_page; in a restart it leaves
\* the except block.
PlaywrightStarted(t, ok) ==
  /\ run.phase = "crawl" /\ task[t].pc \in {"lazy_pw", "restart_pw"}
  /\ IF ok
       THEN Commit(t, R([task[t] EXCEPT !.pc = IF @ = "lazy_pw" THEN "lazy_launch" ELSE "restart_launch"],
                        [pool EXCEPT !.playwright = TRUE], "none"))
       ELSE IF task[t].pc = "lazy_pw"
              THEN Failed(t, R(Done(task[t], "failed"), [pool EXCEPT !.lock = 0], "raise"))
              ELSE Failed(t, RestartFailed(task[t], pool))

\* The pool after chromium.launch() returned browser number n (line 176).
Launch(pl, n) == [pl EXCEPT !.browser = n, !.open = @ \cup {n}, !.gen = n]

\* start(): chromium.launch() returns or raises (lines 176-192).
Launched(t, ok) ==
  /\ run.phase = "crawl" /\ task[t].pc \in {"lazy_launch", "restart_launch"}
  /\ IF ok
       THEN IF task[t].pc = "lazy_launch"
              THEN Commit(t, Inside(t, task[t], [Launch(pool, pool.gen + 1) EXCEPT !.lock = 0]))
              ELSE Commit(t, AfterHandler([task[t] EXCEPT !.handle = pool.gen + 1],
                                          [Launch(pool, pool.gen + 1) EXCEPT !.lock = 0]))
       ELSE IF task[t].pc = "lazy_launch"
              THEN Failed(t, R(Done(task[t], "failed"), [pool EXCEPT !.lock = 0], "raise"))
              ELSE Failed(t, RestartFailed(task[t], pool))

\* The pool after browser.close() returned (lines 196-198).
Closed(pl) == [pl EXCEPT !.browser = 0, !.open = @ \ {pl.browser}]

\* stop() inside _restart_browser: browser.close() returns or raises.
BrowserClosed(t, ok) ==
  /\ run.phase = "crawl" /\ task[t].pc = "restart_close"
  /\ IF ok
       THEN Commit(t, R([task[t] EXCEPT !.pc = IF pool.playwright THEN "restart_pwstop" ELSE "restart_pw"],
                        Closed(pool), "none"))
       ELSE Failed(t, RestartFailed(task[t], pool))

\* stop() inside _restart_browser: playwright.stop() returns or raises
\* (lines 199-201); start() follows.
PlaywrightStopped(t, ok) ==
  /\ run.phase = "crawl" /\ task[t].pc = "restart_pwstop"
  /\ IF ok
       THEN Commit(t, R([task[t] EXCEPT !.pc = "restart_pw"], [pool EXCEPT !.playwright = FALSE], "none"))
       ELSE Failed(t, RestartFailed(task[t], pool))

\* browser.new_context() returns or raises (line 257).  On a browser that
\* is no longer open it raises the "closed" exception; on an open one the
\* environment decides.
NewContextDone(t, outcome) ==
  /\ run.phase = "crawl" /\ task[t].pc = "new_context"
  /\ CASE outcome = "ok" ->
            /\ task[t].handle \in pool.open
            /\ Commit(t, R([task[t] EXCEPT !.pc = "page", !.ctx = TRUE], pool, "none"))
       [] outcome = "closed" /\ task[t].handle \notin pool.open ->
            Commit(t, OnException(t, task[t], pool, "closed"))
       [] OTHER ->
            /\ task[t].handle \in pool.open
            /\ Failed(t, OnException(t, task[t], pool, outcome))

\* The page operations between new_context and the return (lines 267-351)
\* end: with a page, with a pair that has an empty string, or with an
\* exception.
PageDone(t, outcome) ==
  /\ run.phase = "crawl" /\ task[t].pc = "page"
  /\ CASE outcome \in {"page", "empty"} ->
            /\ task[t].handle \in pool.open
            /\ Commit(t, Finally([task[t] EXCEPT !.mode = "return", !.res = outcome], pool))
       [] outcome = "closed" /\ task[t].handle \notin pool.open ->
            Commit(t, OnException(t, task[t], pool, "closed"))
       [] OTHER ->
            /\ outcome \in {"error", "closed"}
            /\ task[t].handle \in pool.open
            /\ Failed(t, OnException(t, task[t], pool, outcome))

\* context.close() in the finally block returns or raises; `except: pass`
\* makes the two the same (lines 375-379).
CloseDone(t) ==
  /\ run.phase = "crawl" /\ task[t].pc = "close"
  /\ Commit(t, AfterFinally([task[t] EXCEPT !.ctx = FALSE], pool))

\* The timeout of asyncio.wait_for expires (line 245): the task is cancelled
\* and CancelledError is raised at the await it is suspended at.  `except
\* Exception` does not catch it; the bare `except:` around context.close()
\* does.
Timeout(t) ==
  /\ run.phase = "crawl" /\ task[t].timer = "armed" /\ env.timeouts > 0
  /\ CASE task[t].pc \in {"is_pdf", "fetch", "sem", "lazy_lock"} ->
            CommitAt(t, R(Done([task[t] EXCEPT !.timer = "fired"], "abandoned"), pool, "none"), "timeout")
       [] task[t].pc \in {"lazy_pw", "lazy_launch"} ->
            CommitAt(t, R(Done([task[t] EXCEPT !.timer = "fired"], "abandoned"), [pool EXCEPT !.lock = 0], "none"), "timeout")
       [] task[t].pc \in {"new_context", "page", "restart_lock"} ->
            CommitAt(t, Cancelled([task[t] EXCEPT !.timer = "fired"], pool), "timeout")
       [] task[t].pc \in {"restart_close", "restart_pwstop", "restart_pw", "restart_launch"} ->
            CommitAt(t, Cancelled([task[t] EXCEPT !.timer = "fired"], [pool EXCEPT !.lock = 0]), "timeout")
       [] task[t].pc = "close" ->
            CommitAt(t, AfterFinally([task[t] EXCEPT !.timer = "fired", !.ctx = FALSE], pool), "timeout")

(***************************************************************************)
(* process_cache (batch_answer_cache.py 267-399) from the construction of  *)
(* the store on: the steps of the main coroutine.                          *)
(***************************************************************************)
UrlARoot == HttpsPrefix \o <<Tok("a.com")>>

UrlARootSlash == HttpsPrefix \o <<Tok("a.com"), Tok("/")>>

\* The URL lists of the runs: all_unique_urls holds distinct strings.
RunLists == {<<UrlARootSlash, UrlARoot, UrlBQ>>}

ZeroCount(list) == [t \in 1..Len(list) |-> 0]

\* process_cache is called with the URL list (lines 352-365): the store is
\* constructed on the task directory, the manager is created and __aenter__
\* awaits start().
StartRun(list) ==
  /\ run.phase \in {"idle", "ended", "raised"} /\ run.no < MaxRuns
  /\ run.no > 0 => list = run.list
  /\ run' = [phase |-> "enter_pw", list |-> list, no |-> run.no + 1]
  /\ urls' = load_index(indexFile, files)
  /\ task' = [t \in 1..Len(list) |-> NewTask]
  /\ pool' = NoPool
  /\ hist' = [captures |-> ZeroCount(list), fetches |-> ZeroCount(list), webs |-> ZeroCount(list),
              pdfs |-> ZeroCount(list), raised |-> {},
              known |-> {t \in 1..Len(list) : has(urls', list[t]) # {NoneVal}}]
  /\ UNCHANGED <<files, indexFile, putVars, env>>

\* __aenter__: async_playwright().start() returns or raises.
EnterPlaywright(ok) ==
  /\ run.phase = "enter_pw"
  /\ IF ok THEN /\ pool' = [pool EXCEPT !.playwright = TRUE]
                /\ run' = [run EXCEPT !.phase = "enter_launch"]
                /\ UNCHANGED env
     ELSE /\ env.faults > 0
          /\ env' = Spend("fault")
          /\ run' = [run EXCEPT !.phase = "raised"]
          /\ UNCHANGED pool
  /\ UNCHANGED <<storeVars, putVars, task, hist>>

\* __aenter__: chromium.launch() returns or raises.
EnterLaunch(ok) ==
  /\ run.phase = "enter_launch"
  /\ IF ok THEN /\ pool' = Launch(pool, pool.gen + 1)
                /\ run' = [run EXCEPT !.phase = "crawl"]
                /\ UNCHANGED env
     ELSE /\ env.faults > 0
          /\ env' = Spend("fault")
          /\ run' = [run EXCEPT !.phase = "raised"]
          /\ UNCHANGED pool
  /\ UNCHANGED <<storeVars, putVars, task, hist>>

\* The tasks are created (lines 365-369) and each runs up to its first
\* await in the same pass of the event loop: the test of cache.has(url),
\* then is_pdf.
StartTasks ==
  /\ run.phase = "crawl" /\ \A t \in Tasks : task[t].pc = "new"
  /\ task' = [t \in Tasks |->
                IF Cached(urls, run.list[t]) THEN Done(NewTask, "skipped")
                ELSE [NewTask EXCEPT !.pc = "is_pdf", !.timer = "armed"]]
  /\ UNCHANGED <<storeVars, putVars, run, pool, hist, env>>

\* cache.save() and the return of process_cache (line 373 on).
SaveAndEnd ==
  /\ indexFile' = save(urls)
  /\ run' = [run EXCEPT !.phase = "ended"]

\* All tasks have ended: __aexit__ awaits stop() (lines 194-201).
ExitBegin ==
  /\ run.phase = "crawl" /\ \A t \in Tasks : task[t].pc = "done"
  /\ IF pool.browser # 0 THEN run' = [run EXCEPT !.phase = "exit_close"] /\ UNCHANGED indexFile
     ELSE IF pool.playwright THEN run' = [run EXCEPT !.phase = "exit_pw"] /\ UNCHANGED indexFile
     ELSE SaveAndEnd
  /\ UNCHANGED <<urls, files, putVars, task, pool, hist, env>>

\* __aexit__: browser.close() returns or raises.
ExitClose(ok) ==
  /\ run.phase = "exit_close"
  /\ IF ok THEN /\ pool' = Closed(pool)
                /\ UNCHANGED env
                /\ IF pool.playwright THEN run' = [run EXCEPT !.phase = "exit_pw"] /\ UNCHANGED indexFile
                   ELSE SaveAndEnd
     ELSE /\ env.faults > 0
          /\ env' = Spend("fault")
          /\ run' = [run EXCEPT !.phase = "raised"]
          /\ UNCHANGED <<indexFile, pool>>
  /\ UNCHANGED <<urls, files, putVars, task, hist>>

\* __aexit__: playwright.stop() returns or raises; then cache.save().
ExitPlaywright(ok) ==
  /\ run.phase = "exit_pw"
  /\ IF ok THEN /\ pool' = [pool EXCEPT !.playwright = FALSE]
                /\ UNCHANGED env
                /\ SaveAndEnd
     ELSE /\ env.faults > 0
          /\ env' = Spend("fault")
          /\ run' = [run EXCEPT !.phase = "raised"]
          /\ UNCHANGED <<indexFile, pool>>
  /\ UNCHANGED <<urls, files, putVars, task, hist>>

RunInit ==
  /\ urls = <<>>
  /\ files = <<>>
  /\ indexFile = [st |-> "absent"]
  /\ putPc = "idle"
  /\ putArg = NoArg
  /\ nOps = 0
  /\ last = [op |-> "init", url |-> <<>>, at |-> "idle"]
  /\ run = NoRun
  /\ task = <<>>
  /\ pool = NoPool
  /\ hist = NoHist
  /\ env = [faults |-> MaxFaults, timeouts |-> MaxTimeouts]

RunNext ==
  \/ \E list \in RunLists : StartRun(list)
  \/ \E ok \in BOOLEAN : EnterPlaywright(ok)
  \/ \E ok \in BOOLEAN : EnterLaunch(ok)
  \/ StartTasks
  \/ \E t \in Tasks : IsPdfDone(t)
  \/ \E t \in Tasks, outcome \in {"bytes", "none", "raise"} : FetchDone(t, outcome)
  \/ \E t \in Tasks : SemAcquire(t)
  \/ \E t \in Tasks : LockAcquire(t)
  \/ \E t \in Tasks, ok \in BOOLEAN : PlaywrightStarted(t, ok)
  \/ \E t \in Tasks, ok \in BOOLEAN : Launched(t, ok)
  \/ \E t \in Tasks, ok \in BOOLEAN : BrowserClosed(t, ok)
  \/ \E t \in Tasks, ok \in BOOLEAN : PlaywrightStopped(t, ok)
  \/ \E t \in Tasks, outcome \in {"ok", "error", "closed"} : NewContextDone(t, outcome)
  \/ \E t \in Tasks, outcome \in {"page", "empty", "error", "closed"} : PageDone(t, outcome)
  \/ \E t \in Tasks : CloseDone(t)
  \/ \E t \in Tasks : Timeout(t)
  \/ ExitBegin
  \/ \E ok \in BOOLEAN : ExitClose(ok)
  \/ \E ok \in BOOLEAN : ExitPlaywright(ok)

RunSpec == RunInit /\ [][RunNext]_vars

(***************************************************************************)
(* Properties of the store (StoreSpec)                                     *)
(***************************************************************************)

\* A resolved key of kind web or pdf whose get_* call fails.
Unreadable(k) ==
  \/ IndexKind(urls, k) = "web" /\ get_web_at(urls, files, k).res # "ok"
  \/ IndexKind(urls, k) = "pdf" /\ get_pdf_at(urls, files, k).res # "ok"

\* C3: in every reachable state of a store, every index entry has its
\* payload files on disk under the hash key computed from the index key, and
\* whenever has(u) reports a kind, get_web(u) or get_pdf(u) returns content.
C3_EntriesHavePayload ==
  /\ \A i \in 1..Len(urls) : FilesExist(files, urls[i].url, urls[i].kind)
  /\ \A u \in StoreUrls : \A k \in find_url(urls, u) : ~Unreadable(k)

\* The two payload files of the put_web call in progress are written, with
\* the text and the screenshot of the call.
PayloadWritten ==
  /\ FileExists(files, get_url_hash(putArg.url), "txt")
  /\ FileExists(files, get_url_hash(putArg.url), "jpg")
  /\ files[<<get_url_hash(putArg.url), "txt">>] = <<"text", putArg.text>>
  /\ files[<<get_url_hash(putArg.url), "jpg">>] = convert_image_to_jpg(putArg.shot)

\* A step of put_web that writes a payload file.
WritesPayload == putPc' \in {"web_jpg", "web_idx"}

\* The store was constructed after the process was killed inside put_web,
\* between the payload writes and the index mutation.
KilledInPutWeb == last.op = "construct" /\ last.at \in {"web_jpg", "web_idx"}

\* C4: in every put_web call both payload files are written before the
\* in-memory index is changed, and a store constructed after a kill between
\* the payload writes and the index mutation exposes no entry for the URL
\* that lacks a payload file.
C4_PayloadBeforeIndex ==
  /\ [](putPc = "web_idx" => PayloadWritten)
  /\ [][WritesPayload => urls' = urls]_vars
  /\ [](KilledInPutWeb => \A k \in find_url(urls, last.url) : ~Unreadable(k))

\* A store was constructed after a kill between the second payload write
\* and the index mutation of a put_web for a URL it has no entry for: the
\* files of the call are on disk, the URL does not resolve.
C4_Witness ==
  /\ last.op = "construct" /\ last.at = "web_idx"
  /\ FileExists(files, get_url_hash(last.url), "txt")
  /\ FileExists(files, get_url_hash(last.url), "jpg")
  /\ find_url(urls, last.url) = {}

\* C6: when u has been cached by put_web or put_pdf, has(v) reports the same
\* kind as has(u) for every v in _get_url_variants(u).
C6_VariantsResolve ==
  (putPc = "idle" /\ last.op \in {"put_web", "put_pdf"})
    => \A v \in get_url_variants(last.url) : has(urls, v) = has(urls, last.url)

(***************************************************************************)
(* Properties of a run of process_cache (RunSpec)                          *)
(***************************************************************************)

\* No task other than t has put anything into the store in this run.
OnlyWriter(t) == \A o \in Tasks \ {t} : hist.webs[o] = 0 /\ hist.pdfs[o] = 0

\* The URL of task t was not in the store when the run began, and the run
\* has ended with no other task writing.
EndedAlone(t) == run.phase = "ended" /\ t \notin hist.known /\ OnlyWriter(t)

\* C1: when capture_page returns the sentinel pair, crawl_one_page does not
\* call put_web for the URL, and after the run has(url) is None.
C1_SentinelNotStored ==
  \A t \in Tasks :
    task[t].res = "sentinel" =>
      /\ hist.webs[t] = 0
      /\ EndedAlone(t) => has(urls, run.list[t]) = {NoneVal}

\* Two URLs of the list denote the same resource: they have the same hash key.
SameResource(t1, t2) == get_url_hash(run.list[t1]) = get_url_hash(run.list[t2])

\* The task is inside a call of capture_page.
InCapture(t) == task[t].pc \in InsidePcs \cup {"sem"}

\* C2: within one run at most one capture is started and at most one put_web
\* is executed for a resource, also when the list holds several strings for
\* it, and no two captures of the same resource are in flight together.
C2_OneCapturePerResource ==
  \A t1 \in Tasks : \A t2 \in Tasks \ {t1} :
    SameResource(t1, t2) =>
      /\ hist.captures[t1] + hist.captures[t2] <= 1
      /\ hist.webs[t1] + hist.webs[t2] <= 1
      /\ ~(InCapture(t1) /\ InCapture(t2))

\* C5: in a second run over the same URL list, when the store the run
\* constructs holds every URL of the list, no capture and no document fetch
\* is performed: every task is skipped.
C5_SecondRunSkips ==
  (run.no > 1 /\ hist.known = Tasks) =>
    \A t \in Tasks :
      /\ hist.captures[t] = 0 /\ hist.fetches[t] = 0
      /\ task[t].pc \in {"new", "done"}
      /\ task[t].pc = "done" => task[t].term = "skipped"

\* A second run has ended in which every URL was in the store from the
\* start and every task was skipped.
C5_Witness ==
  /\ run.no = 2 /\ run.phase = "ended" /\ Tasks # {} /\ hist.known = Tasks
  /\ \A t \in Tasks : task[t].term = "skipped"

\* C7: a task whose timeout has expired is abandoned: it has ended as
\* abandoned, or the cancellation is unwinding it, wherever it was waiting.
C7_AbandonedAtTimeout ==
  \A t \in Tasks :
    task[t].timer = "fired" =>
      \/ task[t].pc = "done" /\ task[t].term = "abandoned"
      \/ task[t].pc = "close" /\ task[t].mode = "cancel"

\* C8: a task abandoned by the timeout executes no put_web and no put_pdf at
\* or after the timeout; only a task that captured a page or fetched a
\* document changes the store; a URL absent before the run is absent after it.
C8_OnlyCachedMutates ==
  \A t \in Tasks :
    /\ task[t].timer = "fired" => hist.webs[t] = 0 /\ hist.pdfs[t] = 0
    /\ hist.webs[t] + hist.pdfs[t] > 0 => task[t].res \in {"page", "pdf"}
    /\ (task[t].timer = "fired" /\ EndedAlone(t)) => has(urls, run.list[t]) = {NoneVal}

\* The tasks whose capture_page call has created a context and not closed it.
OpenContexts == {t \in Tasks : task[t].ctx}

\* Task t enters the body of `async with self._page_semaphore` in this step.
Enters(t) == task[t].pc \notin InsidePcs /\ task'[t].pc \in InsidePcs

\* C9: the contexts created by capture_page calls and not yet closed never
\* exceed max_concurrent_pages, and a call enters only while fewer than
\* max_concurrent_pages calls are inside.
C9_ContextsBounded ==
  /\ [](Cardinality(OpenContexts) <= MaxConcurrentPages /\ SemHeld <= MaxConcurrentPages)
  /\ [][\A t \in Tasks : (run'.phase = "crawl" /\ Enters(t)) => SemHeld < MaxConcurrentPages]_vars

\* max_concurrent_pages contexts are open and another call of capture_page
\* is suspended at the semaphore.
C9_Witness ==
  /\ Cardinality(OpenContexts) = MaxConcurrentPages
  /\ \E t \in Tasks : task[t].pc = "sem"

\* C10: no call of capture_page raises to its caller.
C10_NeverRaises == hist.raised = {}

(***************************************************************************)
(* The integrity sweep and the resolution of URLs (StoreSpec)              *)
(***************************************************************************)

\* The entries of an index as a set.
Entries(index) == {index[i] : i \in 1..Len(index)}

\* The payload files of kind, as put_web and put_pdf wrote them for the
\* entry with index key k: the calls name the files by the md5 digest of the
\* canonical URL, which is the index key itself (lines 246, 260, 264, 272).
WrittenFor(fs, k, kind) == FilesExistAt(fs, k, kind)

\* C11: after the construction of a store the index holds only entries of
\* index.json whose payload files exist, and every entry of index.json whose
\* files a put_* call wrote and that are still on disk is retained with its
\* kind.
C11_SweepKeepsWritten ==
  (last.op = "construct" /\ indexFile.st = "ok") =>
    /\ \A en \in Entries(urls) : en \in Entries(indexFile.data) /\ FilesExist(files, en.url, en.kind)
    /\ \A en \in Entries(indexFile.data) : WrittenFor(files, en.url, en.kind) => en \in Entries(urls)


\* The URLs the store is asked about: those put, and the keys it holds.
Probes == StoreUrls \cup IndexKeys(urls)

SameNormalized(u, v) == normalize_url_simple(u) = normalize_url_simple(v)

\* C12: in every state of the store two URLs with equal normalize_url_simple
\* results resolve to the same index entry, and has reports the same for both.
C12_EqualNormalizedSameEntry ==
  \A u \in Probes : \A v \in Probes :
    SameNormalized(u, v) => find_url(urls, u) = find_url(urls, v) /\ has(urls, u) = has(urls, v)

\* C13: after any sequence of put_web and put_pdf calls the index holds no
\* two keys with equal normalize_url_simple results.
C13_OneKeyPerResource ==
  \A i \in 1..Len(urls) : \A j \in 1..Len(urls) :
    SameNormalized(urls[i].url, urls[j].url) => i = j

(***************************************************************************)
(* Properties of a run (RunSpec), continued                                *)
(***************************************************************************)

\* Every per-URL task of the run has ended.
AllTasksDone == Tasks # {} /\ \A t \in Tasks : task[t].pc = "done"

\* process_cache is over: it returned or it raised.
RunOver == run.phase \in {"ended", "raised"}

\* cache.save() is executed in this step.
SaveStep == run.phase # "ended" /\ run'.phase = "ended"

\* C14: cache.save() is executed only when every per-URL task has ended, it
\* is the only step that writes index.json, no task moves after it, and a
\* run whose tasks have all ended has executed it when the run is over.
C14_SaveOnceAfterTasks ==
  /\ [][SaveStep => AllTasksDone /\ indexFile' = save(urls)]_vars
  /\ [][indexFile' # indexFile => SaveStep]_vars
  /\ [][run.phase = "ended" /\ run'.no = run.no => task' = task /\ indexFile' = indexFile]_vars
  /\ []((RunOver /\ AllTasksDone) => indexFile = save(urls))

(***************************************************************************)
(* Properties of the store (StoreSpec), continued                          *)
(***************************************************************************)

\* A step of put_web or put_pdf.
PutStep == putPc # "idle" \/ putPc' # "idle"

\* The store was constructed after a put_* call returned and before any
\* save wrote index.json.
ConstructedBeforeSave == last.op = "construct" /\ last.at = "idle" /\ indexFile.st = "absent"

\* C15: put_web and put_pdf never write index.json, and a store constructed
\* on the directory reports only URLs that index.json holds: what was put
\* and not saved is not reported, while its payload files are on disk.
C15_PutLeavesIndexFile ==
  /\ [][PutStep /\ last'.op # "construct" => indexFile' = indexFile]_vars
  /\ [](last.op = "construct" =>
          /\ IndexKeys(urls) \subseteq (IF indexFile.st = "ok" THEN IndexKeys(indexFile.data) ELSE {})
          /\ ConstructedBeforeSave => \A u \in StoreUrls : has(urls, u) = {NoneVal})

\* A store was constructed after put_web had returned and before a save:
\* both payload files of the URL are on disk and has reports nothing.
C15_Witness ==
  /\ ConstructedBeforeSave
  /\ \E u \in StoreUrls :
       /\ FileExists(files, get_url_hash(u), "txt") /\ FileExists(files, get_url_hash(u), "jpg")
       /\ has(urls, u) = {NoneVal}

\* A URL that is looked up and never put: 'https://a.com/P//'.
UrlAUpperPSlashSlash == HttpsPrefix \o <<Tok("a.com"), Tok("/"), Tok("P"), Tok("/"), Tok("/")>>

\* The URLs _find_url is called with.
LookupUrls == Probes \cup {UrlAUpperPSlashSlash}

\* The stored keys whose normalize_url_simple result equals that of url.
NormalizedHits(index, url) == {k \in IndexKeys(index) : SameNormalized(k, url)}

\* The stored keys that are members of _get_url_variants(url).
VariantHits(index, url) == get_url_variants(url) \cap IndexKeys(index)

\* The keys found are one of hits, which is not empty.
OneOf(found, hits) == found # {} /\ found \subseteq hits

\* The stages of the resolution of url, found being what _find_url returns
\* and byNorm, byVariant the hits of the second and third stage.
Staged(index, url, found, byNorm, byVariant) ==
  IF url \in IndexKeys(index) THEN found = {url}
  ELSE IF byNorm # {} THEN OneOf(found, byNorm)
  ELSE IF byVariant # {} THEN OneOf(found, byVariant)
  ELSE found = {}

\* C16: _find_url returns the URL itself when it is a key; otherwise a key
\* with the same normalize_url_simple result when there is one; otherwise a
\* key among the variants of the URL when there is one; otherwise nothing.
C16_StagedResolution ==
  \A u \in LookupUrls :
    Staged(urls, u, find_url(urls, u), NormalizedHits(urls, u), VariantHits(urls, u))

\* C17: the construction of a store on a directory whose index.json is
\* malformed does not raise and gives an empty index: no URL is reported.
C17_MalformedIndexIsEmpty ==
  (last.op \in {"construct", "construct_raised"} /\ indexFile.st \in Malformed) =>
    /\ last.op = "construct"
    /\ urls = <<>>
    /\ \A u \in StoreUrls : has(urls, u) = {NoneVal}

\* The last operation was a call of get_web or get_pdf for last.url, and
\* last.at is how it ended.
GetCalled(op) == last.op = op

\* C20: get_web raises KeyError when the URL does not resolve or resolves to
\* an entry that is not web, and returns content only for an entry of kind
\* web in the index; the same holds for get_pdf and pdf; neither call
\* changes the index, the payload files or index.json.
C20_GetRaisesNotFound ==
  /\ [](GetCalled("get_web") =>
          /\ "web" \notin has(urls, last.url) => last.at = "KeyError"
          /\ last.at = "KeyError" => has(urls, last.url) # {"web"}
          /\ last.at = "ok" => \E k \in find_url(urls, last.url) : IndexKind(urls, k) = "web")
  /\ [](GetCalled("get_pdf") =>
          /\ "pdf" \notin has(urls, last.url) => last.at = "KeyError"
          /\ last.at = "KeyError" => has(urls, last.url) # {"pdf"}
          /\ last.at = "ok" => \E k \in find_url(urls, last.url) : IndexKind(urls, k) = "pdf")
  /\ [][last'.op \in {"get_web", "get_pdf"} => UNCHANGED storeVars]_vars

\* get_web was called for a URL that resolves to an entry of kind pdf while
\* the files of an earlier put_web for it are on disk, and raised KeyError.
C20_Witness ==
  /\ GetCalled("get_web") /\ last.at = "KeyError"
  /\ has(urls, last.url) = {"pdf"}
  /\ FileExists(files, get_url_hash(last.url), "txt")
  /\ FileExists(files, get_url_hash(last.url), "jpg")

(***************************************************************************)
(* The URL identity functions applied to given URLs (UrlSpec): a URL is    *)
(* given, a tracking parameter is added to it, and normalize_url_simple is *)
(* applied to the URL and to the URL with the parameter.  last.url holds   *)
(* the URL, putArg.url the URL with the parameter.                         *)
(***************************************************************************)
InputSchemes == {HttpsPrefix, HttpPrefix, <<Tok("HTTP")>> \o ColonSlashSlash}

InputHosts == {<<Tok("a.com")>>, <<Tok("www."), Tok("a.com")>>}

InputRests ==
  {<<>>,
   <<Tok("/")>>,
   <<Tok("/"), Tok("p")>>,
   <<Tok("/"), Tok("p"), Tok("/")>>,
   <<Tok("/"), Tok("P")>>,
   <<Tok("/"), Tok("p"), Tok("?"), Tok("x"), Tok("="), Tok("1")>>,
   <<Tok("/"), Tok("p"), Tok("#"), Tok("f")>>,
   <<Tok("/"), Tok("p"), Tok("?")>>}

UrlInputs == {sc \o h \o r : sc \in InputSchemes, h \in InputHosts, r \in InputRests}

UtmValues == {"x", "chatgpt.com"}

\* The part of a URL before its fragment, h being the position of the
\* first '#' (0 for none), and the rest.
BeforeFragment(u, h) == IF h > 0 THEN Prefix(u, h - 1) ELSE u

FromFragment(u, h) == IF h > 0 THEN Suffix(u, h) ELSE <<>>

\* The URL with the query parameter name=value added: after '?' when the
\* URL has no query, after '&' when it has one, before the fragment.
WithParameter(head, name, value, tail) ==
  head \o <<Tok(IF HasLit(head, "?") THEN "&" ELSE "?"), Tok(name), Tok("="), Tok(value)>> \o tail

AddParameter(u, name, value) ==
  WithParameter(BeforeFragment(u, FirstLit(u, "#")), name, value, FromFragment(u, FirstLit(u, "#")))

UrlInit ==
  /\ urls = <<>>
  /\ files = <<>>
  /\ indexFile = [st |-> "absent"]
  /\ putPc = "idle"
  /\ nOps = 0
  /\ \E u \in UrlInputs :
       /\ putArg = [url |-> u, text |-> "", shot |-> ""]
       /\ last = [op |-> "input", url |-> u, at |-> "idle"]
  /\ run = NoRun
  /\ task = <<>>
  /\ pool = NoPool
  /\ hist = NoHist
  /\ env = NoEnv

\* A utm_* parameter is added to the URL.
AddUtm(name, value) ==
  /\ last.op = "input"
  /\ putArg' = [putArg EXCEPT !.url = AddParameter(last.url, name, value)]
  /\ last' = [last EXCEPT !.op = "add_utm"]
  /\ UNCHANGED <<storeVars, putPc, nOps, runVars>>

\* normalize_url_simple is applied to the URL and to the URL with the
\* parameter.
Normalize ==
  /\ last.op = "add_utm"
  /\ putArg' = [putArg EXCEPT !.url = normalize_url_simple(@)]
  /\ last' = [op |-> "normalize", url |-> normalize_url_simple(last.url), at |-> "idle"]
  /\ UNCHANGED <<storeVars, putPc, nOps, runVars>>

\* The two identity functions are applied to the URL: putArg.url becomes
\* normalize_url_simple(url), last.url becomes _remove_frag_and_slash(url).
Canonicalize ==
  /\ last.op = "input"
  /\ putArg' = [putArg EXCEPT !.url = normalize_url_simple(last.url)]
  /\ last' = [op |-> "canonicalize", url |-> remove_frag_and_slash(last.url), at |-> "idle"]
  /\ UNCHANGED <<storeVars, putPc, nOps, runVars>>

UrlNext ==
  \/ \E name \in UtmRuns, value \in UtmValues : AddUtm(name, value)
  \/ Normalize
  \/ Canonicalize

UrlSpec == UrlInit /\ [][UrlNext]_vars

\* C18: normalize_url_simple of a URL with utm_* parameters added equals
\* normalize_url_simple of the URL.
C18_UtmEquivalence == last.op = "normalize" => putArg.url = last.url

(***************************************************************************)
(* Properties of a run (RunSpec): retries                                  *)
(***************************************************************************)

\* In this step capture_page of task t returns the page that an attempt
\* after the first has captured, and crawl_one_page goes on with it.
ReturnsAfterRetry(t) ==
  /\ task[t].pc = "close" /\ task[t].mode = "return" /\ task[t].res = "page"
  /\ task[t].attempt > 0
  /\ task'[t].pc = "done"

\* The payload files of the URL of task t hold the captured page.
PageStored(fs, t) ==
  /\ FileExists(fs, get_url_hash(TaskUrl(t)), "txt")
  /\ FileExists(fs, get_url_hash(TaskUrl(t)), "jpg")
  /\ fs[<<get_url_hash(TaskUrl(t)), "txt">>] = <<"text", "text1">>
  /\ fs[<<get_url_hash(TaskUrl(t)), "jpg">>] = convert_image_to_jpg("png1")

\* C19: when an attempt of capture_page succeeds after earlier attempts have
\* failed, capture_page returns the content of that attempt, not the
\* sentinel, and crawl_one_page stores exactly that content under the URL.
C19_RetryContentStored ==
  /\ [](\A t \in Tasks : task[t].mode = "return" => task[t].res \in {"page", "empty"})
  /\ [][\A t \in Tasks : ReturnsAfterRetry(t) =>
          /\ task'[t].res = "page" /\ task'[t].term = "cached"
          /\ hist'.webs[t] = hist.webs[t] + 1
          /\ PageStored(files', t)
          /\ has(urls', run.list[t]) = {"web"}]_vars

\* A task whose URL is no document has stored the captured page after one
\* of its attempts failed: the environment has produced one failure, and
\* the other tasks have not yet passed is_pdf.
C19_Witness ==
  \E t \in Tasks :
    /\ TaskUrl(t) \notin Documents
    /\ task[t].term = "cached" /\ task[t].res = "page"
    /\ env.faults = MaxFaults - 1
    /\ \A o \in Tasks \ {t} : task[o].pc = "is_pdf"
    /\ PageStored(files, t)

(***************************************************************************)
(* Properties of the browser pool across a restart (RunSpec)               *)
(***************************************************************************)
\* Task t starts an attempt in this step: capture_page arrives at
\* browser.new_context() of a new pass of the retry loop.
AttemptStarts(t) ==
  /\ t \in DOMAIN task /\ t \in DOMAIN task'
  /\ task'[t].pc = "new_context"
  /\ task[t].pc # "new_context" \/ task'[t].attempt # task[t].attempt

\* C21: an attempt that starts while the pool has a browser creates its
\* context on that browser: after a restart no call of capture_page starts
\* an attempt with the handle of the browser that was closed.
C21_NoStaleHandle ==
  [][\A t \in DOMAIN task' :
       (AttemptStarts(t) /\ pool'.browser # 0) => task'[t].handle = pool'.browser]_vars

\* Task t is inside _restart_browser, awaiting browser.close() of stop().
Stopping(t) == t \in DOMAIN task /\ task[t].pc = "restart_close"

\* In this step browser.new_context() of task o returns a context of the
\* browser b, or a page operation of o on b completes with a page.
UsesBrowser(o, b) ==
  /\ o \in DOMAIN task /\ o \in DOMAIN task'
  /\ task[o].handle = b
  /\ \/ task[o].pc = "new_context" /\ task'[o].pc = "page"
     \/ task[o].pc = "page" /\ task'[o].mode = "return"

\* C22: the browser is stopped and started only by a task that holds
\* _browser_lock, and while a task is stopping the browser no other call of
\* capture_page gets a context of that browser or drives a page of it.
C22_RestartExcludesCaptures ==
  /\ [](\A t \in DOMAIN task : task[t].pc \in LockedPcs => pool.lock = t)
  /\ [][\A t \in DOMAIN task : \A o \in DOMAIN task :
          (Stopping(t) /\ o # t) => ~UsesBrowser(o, pool.browser)]_vars

(***************************************************************************)
(* Properties of the orchestrator's scheduling (RunSpec)                   *)
(***************************************************************************)
\* The per-URL tasks in progress: started and not yet ended, whether in
\* is_pdf, in the document fetch or in capture_page.
InProgress == {t \in DOMAIN task : task[t].pc \notin {"new", "done"}}

\* C23: at any time at most max_concurrent_pages per-URL tasks are in
\* progress.
C23_TasksBounded == Cardinality(InProgress) <= MaxConcurrentPages

(***************************************************************************)
(* The exit paths of capture_page (RunSpec)                                *)
(***************************************************************************)
\* The call of capture_page of task t leaves the body of `async with
\* self._page_semaphore` in this step, by return, exception or cancellation.
Leaves(t) ==
  /\ t \in DOMAIN task /\ t \in DOMAIN task'
  /\ task[t].pc \in InsidePcs /\ task'[t].pc \notin InsidePcs

TimesOut(t) ==
  /\ t \in DOMAIN task /\ t \in DOMAIN task'
  /\ task[t].timer = "armed" /\ task'[t].timer = "fired"

\* The awaits of capture_page at which the call holds a slot and has
\* started an attempt.
AttemptPcs == InsidePcs \ {"lazy_lock", "lazy_pw", "lazy_launch"}

\* C25: the timeout of a task that has called capture_page expires only
\* when the call holds a slot and has started an attempt, never while the
\* call is queued for a slot behind other URLs.
C25_NoTimeoutInQueue ==
  [][\A t \in DOMAIN task :
       (TimesOut(t) /\ hist.captures[t] > 0) => task[t].pc \in AttemptPcs]_vars

(***************************************************************************)
(* Reading what was written (StoreSpec)                                    *)
(***************************************************************************)
\* The call op has returned and nothing was called since.
Returned(op) == last.op = op /\ putPc = "idle"

\* The results get_web can have after put_web(u, text, shot) for one of the
\* texts and screenshots, and get_pdf after put_pdf(u, bytes).
WebWritten ==
  {[res |-> "ok", text |-> <<"text", text>>, shot |-> convert_image_to_jpg(shot)] :
     text \in Texts, shot \in Shots}

PdfWritten == {[res |-> "ok", bytes |-> <<"bytes", b>>] : b \in PdfBytes}

\* C26: immediately after put_web(u, text, screenshot) has returned, has(u)
\* is web and get_web(u) returns that text and the screenshot as JPEG;
\* immediately after put_pdf(u, bytes), get_pdf(u) returns those bytes.
C26_ReadYourWrites ==
  /\ Returned("put_web") =>
       /\ has(urls, last.url) = {"web"}
       /\ get_web(urls, files, last.url) \subseteq WebWritten
  /\ Returned("put_pdf") =>
       /\ has(urls, last.url) = {"pdf"}
       /\ get_pdf(urls, files, last.url) \subseteq PdfWritten

\* The index key put_* stores for the URL u (lines 260, 272).
StoredKey(u) == remove_frag_and_slash(u)

\* C27: the hash key under which put_* has written the payload of u equals
\* the hash key get_* and the sweep compute from the index key stored for
\* u: _remove_frag_and_slash applied twice gives what it gives once.
C27_HashKeyStable ==
  (Returned("put_web") \/ Returned("put_pdf")) =>
    /\ get_url_hash(StoredKey(last.url)) = get_url_hash(last.url)
    /\ remove_frag_and_slash(StoredKey(last.url)) = StoredKey(last.url)

(***************************************************************************)
(* normalize_url_simple against the canonical form (UrlSpec)               *)
(***************************************************************************)
\* The scheme of s replaced by https, n being the position of the first
\* ':' (0 for none).
WithHttps(s, n) == IF n > 0 THEN <<Tok("https")>> \o Suffix(s, n) ELSE s

ForceHttps(s) == WithHttps(s, FirstLit(s, ":"))

\* A leading 'www.' label of the host removed.
DropLeadingWww(s) ==
  IF StartsWith(s, HttpsPrefix \o <<Tok("www.")>>) THEN HttpsPrefix \o Suffix(s, 6) ELSE s

\* The three changes by which normalize_for_comparison may differ from the
\* canonical form c: utm_* parameters removed, scheme https, no leading www.
OnlyThreeChanges(c) == DropLeadingWww(ForceHttps(WithoutUtm(c, UrlParse(c))))

\* C28: normalize_url_simple(u) is the canonical form of u with the scheme
\* forced to https, a leading 'www.' removed and the utm_* parameters
\* removed, and nothing else changed: the letter case of path and query is
\* the one of the canonical form.
C28_NormalizeOnlyThreeChanges ==
  last.op = "canonicalize" => putArg.url = OnlyThreeChanges(last.url)

(***************************************************************************)
(* The URL list of a run (batch_answer_cache.py 124-188, 308-332): what    *)
(* extract_from_file keeps of the URLs of one answer file, and how         *)
(* process_cache merges the files into all_unique_urls.  In this           *)
(* specification hist holds the answer files, the files not yet handled,   *)
(* the keys of url_meta, every URL that was extracted, and the list.       *)
(***************************************************************************)
UrlARootHttp == HttpPrefix \o <<Tok("a.com")>>

\* The URLs the regex and the models find in the answer files.
ExtractedUrls == {UrlARoot, UrlARootSlash, UrlARootHttp, UrlBQ}

MaxRegexUrls == 2

MaxLlmUrls == 1

\* What is extracted from one answer file: urls_regex and urls_llm.
Contents ==
  {[regex |-> r, llm |-> l] :
     r \in {x \in SUBSET ExtractedUrls : Cardinality(x) <= MaxRegexUrls},
     l \in {x \in SUBSET ExtractedUrls : Cardinality(x) <= MaxLlmUrls}}

AnswerFiles == {"a1.md", "a2.md"}

\* len(u) for the runs of ExtractedUrls; an escape "%XX" has three
\* characters and every further level of encoding adds two.
RunLen(c) ==
  CASE c = "https" -> 5
    [] c \in {"a.com", "b.com"} -> 5
    [] c = "http" -> 4
    [] OTHER -> 1

TokLen(t) == IF t.e = 0 THEN RunLen(t.c) ELSE 1 + 2 * t.e

RECURSIVE StrLen(_)
StrLen(u) == IF u = <<>> THEN 0 ELSE TokLen(Head(u)) + StrLen(Tail(u))

\* priorities (lines 174-178): 0 for a URL the regex found, 1 for one only
\* a model found.
PriorityOf(f, u) == IF u \in f.regex THEN 0 ELSE 1

\* The sort key of filter_url_variants (lines 147-152) without its last
\* component u.lower(), which decides between URLs equal in the first three.
SortKey(f, u) == <<PriorityOf(f, u), IF StartsWith(u, HttpsPrefix) THEN 0 ELSE 1, StrLen(u)>>

KeyLess(a, b) ==
  \/ a[1] < b[1]
  \/ a[1] = b[1] /\ a[2] < b[2]
  \/ a[1] = b[1] /\ a[2] = b[2] /\ a[3] < b[3]

\* group[0] after the sort: the member of the group with the least key.
Representative(f, group) ==
  CHOOSE u \in group : \A v \in group \ {u} : KeyLess(SortKey(f, u), SortKey(f, v))

\* filter_url_variants(urls_regex + urls_llm, priorities): one URL for each
\* normalized form among the URLs of the file.
filter_url_variants(f, all_urls) ==
  {Representative(f, {v \in all_urls : normalize_url_simple(v) = normalize_url_simple(u)}) :
     u \in all_urls}

\* extract_from_file: the keys of the mapping it returns.
extract_from_file(f) == filter_url_variants(f, f.regex \cup f.llm)

ExtractInit ==
  /\ urls = <<>>
  /\ files = <<>>
  /\ indexFile = [st |-> "absent"]
  /\ putPc = "idle"
  /\ putArg = NoArg
  /\ nOps = 0
  /\ last = [op |-> "init", url |-> <<>>, at |-> "idle"]
  /\ run = NoRun
  /\ task = <<>>
  /\ pool = NoPool
  /\ env = NoEnv
  /\ \E answers \in [AnswerFiles -> Contents] :
       hist = [answers |-> answers, pending |-> AnswerFiles, url_meta |-> {},
               extracted |-> {}, all_unique_urls |-> {}, listed |-> FALSE]

\* handle_file(p) completes and its mapping is merged into url_meta (lines
\* 312-325): url_meta.setdefault(u, []).extend(srcs) for each of its URLs.
HandleFile(p) ==
  /\ p \in hist.pending
  /\ hist' = [hist EXCEPT !.pending = @ \ {p},
                          !.url_meta = @ \cup extract_from_file(hist.answers[p]),
                          !.extracted = @ \cup hist.answers[p].regex \cup hist.answers[p].llm]
  /\ UNCHANGED <<storeVars, putVars, run, task, pool, env>>

\* All files are handled: all_unique_urls = sort_ci(url_meta_ordered.keys())
\* (lines 328-331).
ListUrls ==
  /\ hist.pending = {} /\ ~hist.listed
  /\ hist' = [hist EXCEPT !.all_unique_urls = hist.url_meta, !.listed = TRUE]
  /\ UNCHANGED <<storeVars, putVars, run, task, pool, env>>

ExtractNext ==
  \/ \E p \in AnswerFiles : HandleFile(p)
  \/ ListUrls

ExtractSpec == ExtractInit /\ [][ExtractNext]_vars

\* C29: all_unique_urls holds no two URLs with equal normalize_url_simple
\* results, and every extracted URL has the normalized form of one URL of
\* the list.
C29_ListDeduplicated ==
  hist.listed =>
    /\ \A u \in hist.all_unique_urls : \A v \in hist.all_unique_urls :
         normalize_url_simple(u) = normalize_url_simple(v) => u = v
    /\ \A e \in hist.extracted : \E u \in hist.all_unique_urls :
         normalize_url_simple(u) = normalize_url_simple(e)

(***************************************************************************)
(* The attempt budget of capture_page (RunSpec)                            *)
(***************************************************************************)
\* The call of task t goes from one attempt to the next in this step.
NextAttempt(t) == AttemptStarts(t) /\ task[t].pc \in AttemptPcs

\* capture_page of task t decides in this step to return the sentinel pair.
SentinelDecided(t) ==
  /\ t \in DOMAIN task /\ t \in DOMAIN task'
  /\ task[t].pc \in InsidePcs /\ task[t].mode # "sentinel"
  /\ task'[t].mode = "sentinel" \/ task'[t].res = "sentinel"

\* C30: the attempts of a call are numbered below max_retries; the next
\* attempt starts only when the context of the previous one is closed, has
\* the next number and no context yet, also when the failed attempt
\* restarted the browser; the sentinel is decided only in the last attempt.
C30_AttemptBudget ==
  /\ [](\A t \in DOMAIN task : task[t].attempt < MaxRetries)
  /\ [][\A t \in DOMAIN task :
          /\ NextAttempt(t) =>
               /\ task'[t].attempt = task[t].attempt + 1
               /\ task[t].ctx => task[t].pc = "close"
               /\ ~task'[t].ctx
          /\ (t \in DOMAIN task' /\ task'[t].attempt # task[t].attempt) =>
               (NextAttempt(t) \/ task'[t].pc = "done")
          /\ SentinelDecided(t) => task[t].attempt = MaxRetries - 1]_vars

\* The call that restarted the browser after the only failure so far is
\* starting its last attempt on the new browser.
C30_Witness ==
  \E t \in DOMAIN task :
    /\ task[t].pc = "new_context" /\ task[t].attempt = MaxRetries - 1
    /\ pool.gen = 2 /\ task[t].handle = pool.gen
    /\ env.faults = MaxFaults - 1

(***************************************************************************)
(* The document branch of crawl_one_page (RunSpec)                         *)
(***************************************************************************)
\* The document fetch of task t ends in this step, the timeout apart.
FetchEnds(t) ==
  /\ t \in DOMAIN task /\ t \in DOMAIN task'
  /\ task[t].pc = "fetch" /\ task'[t].pc # "fetch" /\ task'[t].timer # "fired"

\* C31: for a document URL, a fetch that returns bytes is followed by
\* put_pdf and by no page capture; a fetch that returns nothing or raises
\* is followed by no put_pdf and by the call of capture_page.
C31_DocumentBranch ==
  /\ [](\A t \in DOMAIN task :
          /\ hist.pdfs[t] > 0 =>
               /\ TaskUrl(t) \in Documents /\ hist.fetches[t] = 1 /\ hist.captures[t] = 0
               /\ task[t].pc = "done" /\ task[t].term = "cached" /\ task[t].res = "pdf"
               /\ has(urls, run.list[t]) = {"pdf"}
          /\ hist.captures[t] > 0 => hist.pdfs[t] = 0
          /\ hist.fetches[t] > 0 => TaskUrl(t) \in Documents)
  /\ [][\A t \in DOMAIN task : FetchEnds(t) =>
          \/ /\ task'[t].res = "pdf"
             /\ hist'.pdfs[t] = hist.pdfs[t] + 1 /\ hist'.captures[t] = hist.captures[t]
             /\ urls' = put_pdf_index(urls, TaskUrl(t))
          \/ /\ task'[t].res # "pdf" /\ task'[t].pc \in InsidePcs \cup {"sem"}
             /\ hist'.pdfs[t] = hist.pdfs[t] /\ hist'.captures[t] = hist.captures[t] + 1
             /\ urls' = urls /\ files' = files]_vars

\* The fetch of a document URL has returned bytes: the task has ended with
\* put_pdf and without a call of capture_page.
C31_Witness ==
  \E t \in DOMAIN task :
    /\ TaskUrl(t) \in Documents /\ task[t].term = "cached" /\ task[t].res = "pdf"
    /\ hist.pdfs[t] = 1 /\ hist.captures[t] = 0
    /\ has(urls, run.list[t]) = {"pdf"}

(***************************************************************************)
(* Containment of a task's failure (RunSpec)                               *)
(***************************************************************************)
\* A step of the crawl in which the environment makes an operation of a
\* task fail or its timeout expire.
TaskFails == run.phase = "crawl" /\ env' # env

\* The task has met a failure: capture_page raised, the timeout expired, or
\* every attempt failed.
HasFailed(t) == task[t].term \in {"failed", "abandoned"} \/ task[t].res = "sentinel"

\* C32: a failure in a task does not leave crawl_one_page_safe: it ends no
\* run and changes the record of no other task; the tasks of a run that has
\* left the crawl are all done, whatever happened to each; and a run in
\* which a task has failed goes on to save(): it does not raise, and when it
\* has ended the index is written.
C32_FailureContained ==
  /\ [][TaskFails =>
          /\ run' = run
          /\ \E t \in DOMAIN task : \A o \in DOMAIN task \ {t} : task'[o] = task[o]]_vars
  /\ [](run.phase \in {"exit_close", "exit_pw", "ended"} =>
          \A t \in DOMAIN task : task[t].pc = "done" /\ task[t].term # "")
  /\ [](run.phase = "ended" => indexFile = save(urls))
  /\ []((\E t \in DOMAIN task : HasFailed(t)) => run.phase # "raised")

(***************************************************************************)
(* stop() of the pool at the end of a run (RunSpec)                        *)
(***************************************************************************)
\* A call of capture_page has met a crash of the browser in this run: the
\* browser was restarted, or the restart raised.
CrashMet == pool.gen > 1 \/ hist.raised # {}

\* __aexit__ is awaiting stop().
InStop == run.phase \in {"exit_close", "exit_pw"}

\* C33: stop() at the end of a run does not raise, also after a browser
\* crash, and when it has returned the browser handle and the driver are
\* released; the run reaches save().
C33_StopSafeAfterCrash ==
  /\ [][(CrashMet /\ InStop) => run'.phase # "raised"]_vars
  /\ []((CrashMet /\ run.phase = "ended") =>
          (pool.browser = 0 /\ ~pool.playwright /\ pool.open = {} /\ indexFile = save(urls)))

(***************************************************************************)
(* One restart for each crashed browser (RunSpec)                          *)
(***************************************************************************)
\* The tasks inside _restart_browser or inside the lazy start.
Restarting == {t \in DOMAIN task : task[t].pc \in LockedPcs}

\* Task t begins a restart in this step: it enters _restart_browser.
RestartBegins(t) ==
  /\ t \in DOMAIN task /\ t \in DOMAIN task'
  /\ task[t].pc # "restart_close" /\ task'[t].pc = "restart_close"

\* C34: at most one restart is in progress; a call restarts only the
\* browser its failed attempt was using, never the one another call has
\* launched since; so no more browsers are launched by restarts than
\* crashes have occurred.
C34_OneRestartPerCrash ==
  /\ [](Cardinality(Restarting) <= 1)
  /\ [][\A t \in DOMAIN task : RestartBegins(t) =>
          /\ Restarting = {}
          /\ task[t].handle = pool.browser /\ pool.browser # 0
          /\ pool'.browser = pool.browser]_vars
  /\ [](pool.gen > 0 => pool.gen - 1 <= MaxFaults - env.faults)

\* Two calls have met the crash of the first browser: one has restarted it
\* and starts its next attempt on the second browser, the other has found
\* the browser replaced and has not restarted.
C34_Witness ==
  \E t \in DOMAIN task : \E o \in DOMAIN task :
    /\ pool.gen = 2 /\ pool.browser = 2 /\ env.faults = MaxFaults - 1
    /\ task[t].pc = "new_context" /\ task[t].attempt = 1 /\ task[t].handle = 2
    /\ task[o].pc = "new_context" /\ task[o].attempt = 1 /\ task[o].handle = 1

(***************************************************************************)
(* One browser process and one driver (RunSpec)                            *)
(***************************************************************************)
\* async_playwright().start() of start() returns a driver in this step.
DriverStarts ==
  \/ run.phase = "enter_pw" /\ run'.phase = "enter_launch"
  \/ \E t \in DOMAIN task :
       /\ t \in DOMAIN task'
       /\ task[t].pc \in {"lazy_pw", "restart_pw"}
       /\ task'[t].pc \in {"lazy_launch", "restart_launch"}

\* chromium.launch() of start() returns a browser in this step.
BrowserStarts == pool'.gen > pool.gen

\* C35: at most one browser launched by the pool is open; start() launches
\* a browser only when none is open and starts a driver only when the pool
\* has none, also after a restart or lazy start was interrupted; when
\* stop() has returned at the end of the run neither is alive.
C35_OneBrowserProcess ==
  /\ [](Cardinality(pool.open) <= 1)
  /\ [][BrowserStarts => pool.open = {}]_vars
  /\ [][DriverStarts => ~pool.playwright]_vars
  /\ [](run.phase = "ended" => (pool.open = {} /\ ~pool.playwright))


(***************************************************************************)
(* The pool alone: BatchBrowserManager, started by __aenter__, with        *)
(* MaxCallers coroutines that each call capture_page once, each under a    *)
(* timeout of its own.  The steps are those of capture_page above; what    *)
(* the caller does with the pair is left out.  The event loop runs a       *)
(* callback whenever one is ready and every awaited operation of the       *)
(* browser and the driver completes or fails: a step is taken as long as   *)
(* one is possible.                                                        *)
(***************************************************************************)
MaxCallers == 3

Callers == 1..MaxCallers

PoolInit ==
  /\ urls = <<>>
  /\ files = <<>>
  /\ indexFile = [st |-> "absent"]
  /\ putPc = "idle"
  /\ putArg = NoArg
  /\ nOps = 0
  /\ last = [op |-> "init", url |-> <<>>, at |-> "idle"]
  /\ run = [phase |-> "pool", list |-> [t \in Callers |-> <<>>], no |-> 0]
  /\ task = [t \in Callers |-> [NewTask EXCEPT !.pc = "call", !.timer = "armed"]]
  /\ pool = Launch([NoPool EXCEPT !.playwright = TRUE], 1)
  /\ hist = NoHist
  /\ env = [faults |-> MaxFaults, timeouts |-> MaxTimeouts]

\* The step of caller t with result r takes effect.
PoolCommitAt(t, r, cost) ==
  /\ env' = Spend(cost)
  /\ task' = [task EXCEPT ![t] = r.tk]
  /\ pool' = r.pool
  /\ UNCHANGED <<storeVars, putVars, run, hist>>

PoolFailed(t, r) == env.faults > 0 /\ PoolCommitAt(t, r, "fault")

\* Caller t calls capture_page (line 225 is its first await).
Call(t) ==
  /\ task[t].pc = "call"
  /\ PoolCommitAt(t, EnterCapture(t, task[t], pool, SemHeld), "none")

\* A caller waiting for the semaphore gets it (line 225).
PoolSemAcquire(t) ==
  /\ task[t].pc = "sem"
  /\ SemaphoreFree(SemHeld)
  /\ PoolCommitAt(t, Inside(t, task[t], pool), "none")

\* A caller waiting for _browser_lock gets it (lines 228-230, 361).
PoolLockAcquire(t) ==
  /\ pool.lock = 0
  /\ \/ /\ task[t].pc = "lazy_lock"
        /\ PoolCommitAt(t, Inside(t, task[t], pool), "none")
     \/ /\ task[t].pc = "restart_lock"
        /\ PoolCommitAt(t, UnderLock(t, task[t], pool), "none")

\* start(): async_playwright().start() returns or raises (line 175).
PoolPlaywrightStarted(t, ok) ==
  /\ task[t].pc \in {"lazy_pw", "restart_pw"}
  /\ IF ok
       THEN PoolCommitAt(t, R([task[t] EXCEPT !.pc = IF @ = "lazy_pw" THEN "lazy_launch" ELSE "restart_launch"],
                        [pool EXCEPT !.playwright = TRUE], "none"), "none")
       ELSE IF task[t].pc = "lazy_pw"
              THEN PoolFailed(t, R(Done(task[t], "failed"), [pool EXCEPT !.lock = 0], "raise"))
              ELSE PoolFailed(t, RestartFailed(task[t], pool))

\* start(): chromium.launch() returns or raises (lines 176-192).
PoolLaunched(t, ok) ==
  /\ task[t].pc \in {"lazy_launch", "restart_launch"}
  /\ IF ok
       THEN IF task[t].pc = "lazy_launch"
              THEN PoolCommitAt(t, Inside(t, task[t], [Launch(pool, pool.gen + 1) EXCEPT !.lock = 0]), "none")
              ELSE PoolCommitAt(t, AfterHandler([task[t] EXCEPT !.handle = pool.gen + 1],
                                          [Launch(pool, pool.gen + 1) EXCEPT !.lock = 0]), "none")
       ELSE IF task[t].pc = "lazy_launch"
              THEN PoolFailed(t, R(Done(task[t], "failed"), [pool EXCEPT !.lock = 0], "raise"))
              ELSE PoolFailed(t, RestartFailed(task[t], pool))

\* stop() inside _restart_browser: browser.close() returns or raises.
PoolBrowserClosed(t, ok) ==
  /\ task[t].pc = "restart_close"
  /\ IF ok
       THEN PoolCommitAt(t, R([task[t] EXCEPT !.pc = IF pool.playwright THEN "restart_pwstop" ELSE "restart_pw"],
                        Closed(pool), "none"), "none")
       ELSE PoolFailed(t, RestartFailed(task[t], pool))

\* stop() inside _restart_browser: playwright.stop() returns or raises.
PoolPlaywrightStopped(t, ok) ==
  /\ task[t].pc = "restart_pwstop"
  /\ IF ok
       THEN PoolCommitAt(t, R([task[t] EXCEPT !.pc = "restart_pw"], [pool EXCEPT !.playwright = FALSE], "none"), "none")
       ELSE PoolFailed(t, RestartFailed(task[t], pool))

\* browser.new_context() returns or raises (line 257).
PoolNewContextDone(t, outcome) ==
  /\ task[t].pc = "new_context"
  /\ CASE outcome = "ok" ->
            /\ task[t].handle \in pool.open
            /\ PoolCommitAt(t, R([task[t] EXCEPT !.pc = "page", !.ctx = TRUE], pool, "none"), "none")
       [] outcome = "closed" /\ task[t].handle \notin pool.open ->
            PoolCommitAt(t, OnException(t, task[t], pool, "closed"), "none")
       [] OTHER ->
            /\ task[t].handle \in pool.open
            /\ PoolFailed(t, OnException(t, task[t], pool, outcome))

\* The page operations end (lines 267-351).
PoolPageDone(t, outcome) ==
  /\ task[t].pc = "page"
  /\ CASE outcome \in {"page", "empty"} ->
            /\ task[t].handle \in pool.open
            /\ PoolCommitAt(t, Finally([task[t] EXCEPT !.mode = "return", !.res = outcome], pool), "none")
       [] outcome = "closed" /\ task[t].handle \notin pool.open ->
            PoolCommitAt(t, OnException(t, task[t], pool, "closed"), "none")
       [] OTHER ->
            /\ outcome \in {"error", "closed"}
            /\ task[t].handle \in pool.open
            /\ PoolFailed(t, OnException(t, task[t], pool, outcome))

\* context.close() in the finally block returns or raises (lines 375-379).
PoolCloseDone(t) ==
  /\ task[t].pc = "close"
  /\ PoolCommitAt(t, AfterFinally([task[t] EXCEPT !.ctx = FALSE], pool), "none")

\* The caller is cancelled at the await its call is suspended at.
PoolTimeout(t) ==
  /\ task[t].timer = "armed" /\ env.timeouts > 0
  /\ task[t].pc \in InsidePcs \cup {"sem"}
  /\ CASE task[t].pc \in {"sem", "lazy_lock"} ->
            PoolCommitAt(t, R(Done([task[t] EXCEPT !.timer = "fired"], "abandoned"), pool, "none"), "timeout")
       [] task[t].pc \in {"lazy_pw", "lazy_launch"} ->
            PoolCommitAt(t, R(Done([task[t] EXCEPT !.timer = "fired"], "abandoned"), [pool EXCEPT !.lock = 0], "none"), "timeout")
       [] task[t].pc \in {"new_context", "page", "restart_lock"} ->
            PoolCommitAt(t, Cancelled([task[t] EXCEPT !.timer = "fired"], pool), "timeout")
       [] task[t].pc \in {"restart_close", "restart_pwstop", "restart_pw", "restart_launch"} ->
            PoolCommitAt(t, Cancelled([task[t] EXCEPT !.timer = "fired"], [pool EXCEPT !.lock = 0]), "timeout")
       [] task[t].pc = "close" ->
            PoolCommitAt(t, AfterFinally([task[t] EXCEPT !.timer = "fired", !.ctx = FALSE], pool), "timeout")

PoolNext ==
  \/ \E t \in Callers : Call(t)
  \/ \E t \in Callers : PoolSemAcquire(t)
  \/ \E t \in Callers : PoolLockAcquire(t)
  \/ \E t \in Callers, ok \in BOOLEAN : PoolPlaywrightStarted(t, ok)
  \/ \E t \in Callers, ok \in BOOLEAN : PoolLaunched(t, ok)
  \/ \E t \in Callers, ok \in BOOLEAN : PoolBrowserClosed(t, ok)
  \/ \E t \in Callers, ok \in BOOLEAN : PoolPlaywrightStopped(t, ok)
  \/ \E t \in Callers, outcome \in {"ok", "error", "closed"} : PoolNewContextDone(t, outcome)
  \/ \E t \in Callers, outcome \in {"page", "empty", "error", "closed"} : PoolPageDone(t, outcome)
  \/ \E t \in Callers : PoolCloseDone(t)
  \/ \E t \in Callers : PoolTimeout(t)

PoolSpec == PoolInit /\ [][PoolNext]_vars /\ WF_vars(PoolNext)

\* The call of capture_page of caller t waits for a slot.
Queued(t) == task[t].pc = "sem"

\* The call of capture_page of caller t holds a slot.
HoldsSlot(t) == task[t].pc \in InsidePcs

\* C36: a call of capture_page that waits for a slot gets one, unless its
\* caller is cancelled first; a call that holds a slot leaves and frees it,
\* also when it has to wait for _browser_lock; every call ends.
C36_NoDeadlock ==
  \A t \in Callers :
    /\ Queued(t) ~> (HoldsSlot(t) \/ task[t].timer = "fired")
    /\ HoldsSlot(t) ~> ~HoldsSlot(t)
    /\ <>[](task[t].pc = "done")

\* One call waits for a slot while the slots are held by a call that
\* restarts the browser under _browser_lock and a call that waits for the lock.
C36_Witness ==
  \E t, o, w \in Callers :
    /\ Queued(t)
    /\ task[o].pc \in {"restart_close", "restart_pwstop", "restart_pw", "restart_launch"}
    /\ pool.lock = o
    /\ task[w].pc = "restart_lock"

(***************************************************************************)
(* CacheManager.delete_url on the store.                                   *)
(***************************************************************************)
\* This step is a call delete_url(task, u).
Deletes(u) == last'.op = "delete_url" /\ last'.url = u /\ nOps' = nOps + 1

\* No payload file of the kind is left under the hash key of the stored URL.
PayloadGone(fs, stored, kind) ==
  CASE kind = "web" -> ~FileExists(fs, get_url_hash(stored), "txt") /\ ~FileExists(fs, get_url_hash(stored), "jpg")
    [] kind = "pdf" -> ~FileExists(fs, get_url_hash(stored), "pdf")
    [] OTHER -> TRUE

\* C37: delete_url(task, u) for a URL u that resolves removes the entry u
\* resolves to and the payload files of that entry, writes index.json, and
\* has(u) is None afterwards; u may be a variant of the stored key.
C37_DeleteRemoves ==
  [][\A u \in StoreUrls :
       (Deletes(u) /\ find_url(urls, u) # {}) =>
          /\ \E stored \in find_url(urls, u) :
               /\ stored \notin IndexKeys(urls')
               /\ PayloadGone(files', stored, IndexKind(urls, stored))
          /\ indexFile' = save(urls')
          /\ has(urls', u) = {NoneVal}]_vars

\* C38: delete_url(task, u) for a URL u that does not resolve changes
\* neither the index nor the payload files nor index.json.
C38_DeleteMissingChangesNothing ==
  [][\A u \in StoreUrls :
       (Deletes(u) /\ find_url(urls, u) = {}) =>
          (urls' = urls /\ files' = files /\ indexFile' = indexFile)]_vars

(***************************************************************************)
(* The load-time sweep: CacheFileSys(task_dir) on a directory whose        *)
(* index.json is a JSON object written before (by a run, by hand, by       *)
(* another tool), followed by reads through the instance.                  *)
(***************************************************************************)
\* The values index.json gives to a URL: JSON holds any string here.
SweepKinds == {"web", "pdf", "image"}

SweepEntries(u) == {[url |-> u, kind |-> k] : k \in SweepKinds}

\* index.json: an object with at most the keys UrlAP and UrlBQ.
SweepIndexes ==
  {<<>>} \cup {<<a>> : a \in SweepEntries(UrlAP)} \cup {<<b>> : b \in SweepEntries(UrlBQ)}
         \cup {<<a, b>> : a \in SweepEntries(UrlAP), b \in SweepEntries(UrlBQ)}

\* The task directory: no payload, the two files of put_web(UrlAP, ...) or
\* the file of put_pdf(UrlAP, ...).
SweepFiles ==
  {<<>>, put_web_files(<<>>, UrlAP, "text1", "png1"), put_pdf_files(<<>>, UrlAP, "pdf1")}

\* The instance after __init__ has run _load_index.
SweepInit ==
  /\ \E ix \in SweepIndexes, fs \in SweepFiles :
       /\ indexFile = [st |-> "ok", data |-> ix]
       /\ files = fs
       /\ urls = load_index([st |-> "ok", data |-> ix], fs)
  /\ putPc = "idle"
  /\ putArg = NoArg
  /\ nOps = 0
  /\ last = [op |-> "construct", url |-> <<>>, at |-> "idle"]
  /\ run = NoRun
  /\ task = <<>>
  /\ pool = NoPool
  /\ hist = NoHist
  /\ env = NoEnv

SweepNext ==
  \/ \E u \in StoreUrls : GetWeb(u)
  \/ \E u \in StoreUrls : GetPdf(u)
  \/ Construct

SweepSpec == SweepInit /\ [][SweepNext]_vars

\* C39: after the sweep of _load_index every entry of the index has kind
\* web or pdf, and has(u) returns web, pdf or None.
C39_OnlyWebOrPdf ==
  /\ \A i \in 1..Len(urls) : urls[i].kind \in {"web", "pdf"}
  /\ \A u \in StoreUrls : has(urls, u) \subseteq {"web", "pdf", NoneVal}
====
